---- MODULE Spec2Model ----
(***************************************************************************)
(* A model of the Kinesis on-demand scaling demo:                          *)
(*   - the KinesisProducer of src/shared/kinesis_producer.py (batching,    *)
(*     batch timer, retry with backoff, partial failures, circuit breaker) *)
(*   - the stream-consumer handler of                                      *)
(*     src/lambda/sentiment-consumer/lambda_handler.py                     *)
(* The producer runs on one asyncio event loop: a step of the model is the *)
(* code a task runs between two suspension points (an await that blocks).  *)
(***************************************************************************)
EXTENDS Integers, Sequences, FiniteSets, TLC

(***************************************************************************)
(* Bounds of the model                                                     *)
(***************************************************************************)
\* number of posts handed to the producer in one behaviour
MaxRecords == 4
\* KinesisProducer(max_batch_size=...): the constructor parameter
max_batch_size == 2
\* the clock stops advancing at MaxTime seconds
MaxTime == 30
\* one Tick of the clock, in seconds
TickSeconds == 30
\* number of posts handed to the producer in a behaviour of SpecSend
SendRecords == 2
\* number of posts handed to the producer in a behaviour of SpecTimer
TimerRecords == 4
\* number of posts handed to the producer in a behaviour of SpecClose
CloseRecords == 4
\* number of posts the generation loop hands to the producer in SpecMain
MainRecords == 3
\* number of metrics-publish cycles in a behaviour of SpecMetrics
MaxCycles == 2
\* number of posts handed to send_posts_batch in a behaviour of SpecBatch
BatchCallRecords == 3
\* number of posts of an analyze_batch call
MaxPosts == 2
\* length of the score array the model returns
MaxScores == 3
\* number of records of the event of a handler invocation
MaxEvent == 3
\* number of metric points buffered in a behaviour of SpecPublisher
MaxPoints == 3
\* CloudWatchMetricsPublisher(max_batch_size=...): the constructor parameter
metrics_max_batch_size == 2
\* number of phases in the demo state of a controller invocation
MaxPhases == 1
\* largest target_tps of a phase of a controller invocation
MaxTps == 4
\* PER_TASK_CAPACITY of the controller (0 is tried as well)
PerTaskCapacity == 2
\* number of containers of the task definition
MaxContainers == 2
\* the longest phase duration given to the traffic controller, in seconds
MaxDuration == 2
\* the clock of the traffic controller stops at MaxClock seconds
MaxClock == 10
\* the largest phase number DEMO_PHASE or the CurrentPhase metric holds
MaxReportedPhase == 5
\* iterations of the main loop in a behaviour of SpecPhases
MaxIterations == 3
\* the clock of the polling controller when it is constructed, in seconds
FirstPoll == 660
\* seconds between two calls of a burst, and a long wait between bursts
ShortWait == 5
LongWait == 300
\* calls come in bursts of at most BurstSeconds
BurstSeconds == 15
\* the polling controller is followed for MaxPollSeconds
MaxPollSeconds == 315
\* log entries created in a behaviour of SpecLogs
MaxEntries == 4
\* MAX_BUFFER_SIZE and MAX_BATCH_SIZE of the log publisher (100 in the code)
MAX_BUFFER_SIZE == 2
MAX_BATCH_SIZE == 2
\* delays requested from an ExponentialBackoff between two resets
MaxDelays == 5
\* the largest max_retries an ExponentialBackoff is built with
MaxRetriesParameter == 3
\* put_records calls of one send are counted up to CallCap; above it the count
\* alternates between CallCap + 1 and CallCap, so one more call is still a step
CallCap == 6

(***************************************************************************)
(* Program constants                                                       *)
(***************************************************************************)
max_retries == 5
circuit_breaker_threshold == 3
circuit_breaker_timeout == 30
\* 4 * 1024 * 1024 bytes, in MiB
ByteLimit == 4

\* payload sizes of a record, in MiB
RecordSizes == {1, 5}
\* the tasks that call send_post / flush
Callers == {"c1", "c2"}
TimerTask == "timer"
\* circuit_breaker_last_failure = None
NoTime == -1

\* the ids of the posts in the records of an event
PostIds == {"p1", "p2"}
\* the data field of a record: absent, no base64, no post, or a post
RecordData == {"missing", "bad_base64", "bad_json"} \cup PostIds
\* what context.get_remaining_time_in_millis() may return
RemainingTimes == {29999, 30000, 30001}
\* BatchProcessor(max_batch_size=10000)
handler_batch_size == 10000

\* error codes of a ClientError raised by put_records
ClientErrorCodes ==
  {"ProvisionedThroughputExceededException", "InternalFailure",
   "ServiceUnavailable", "InvalidArgumentException"}
\* per-record results of a put_records response: accepted, or an ErrorCode
RecordResults == {"ok", "ProvisionedThroughputExceededException", "InternalFailure"}

VARIABLES
  current_batch,                 \* self.current_batch.records
  lock_owner,                    \* the task holding self.batch_lock, or "none"
  lock_waiters,                  \* the tasks waiting for self.batch_lock, FIFO
  batch_timer_task,              \* "none" | "sleeping" | "waiting" | "sending" | "done"
  task,                          \* per caller: what it is doing
  send,                          \* the send in progress under the lock
  attempt,                       \* self.backoff.attempt
  messages_sent,                 \* self.metrics.messages_sent
  messages_failed,               \* self.metrics.messages_failed
  circuit_breaker_failures,
  circuit_breaker_last_failure,
  now,                           \* time.time(), in seconds
  next_id,                       \* id of the next post handed to the producer
  hist,                          \* history: what happened to each record and send
  closed,                        \* close(): "open" | "closing" | "closed"
  call,                          \* the send_posts_batch call under way and its counts
  publishing_task,               \* the metrics publishing loop: where it is, cycles done
  demo_task,                     \* main.py: the task running DemoDataGenerator.start
  main_task,                     \* main.py: main() and the shutdown event
  \* the stream-consumer handler (lambda_handler.py), one invocation
  event,                         \* event['Records']: the data of each record
  h_pc,                          \* where the invocation is
  h,                             \* the locals of handler()
  response,                      \* the sequence numbers of batchItemFailures
  \* the sentiment analyzer (sentiment_analyzer.py), one analyze_batch call
  analyzer,                      \* where the call is, its posts, retries and results
  \* the metrics publisher (cloudwatch_metrics.py)
  publisher,                     \* the buffer, the periodic task, a caller, the calls made
  \* the demo controller (step_functions_controller.py), one invocation
  controller,                    \* the event, the fleet, where the operation is, the result
  \* the traffic-phase controller (post_generator.py)
  traffic,                       \* demo_start_time, the clock, the accessor called last
  \* the main loop of the generator (main.py) following the phases
  generator,                     \* the tracked phase, the producer's phase, the phase reported
  \* the polling phase controller (stepfunctions_phase_controller.py)
  poller,                        \* the cache, CloudWatch's datapoints, the clock, the last call
  \* the log publisher of the consumer (cloudwatch_publisher.py)
  logs,                          \* the buffers, the stream, the writes made
  \* an ExponentialBackoff of the producer used on its own
  exp_backoff,                   \* attempt, the delays requested
  \* the health checker (health_check.py)
  health                         \* the checks' statuses, the overall status, the exit code

prodVars ==
  <<current_batch, lock_owner, lock_waiters, batch_timer_task, task, send, attempt,
    messages_sent, messages_failed, circuit_breaker_failures,
    circuit_breaker_last_failure, now, next_id, hist, closed, call,
    publishing_task, demo_task, main_task>>

handlerVars == <<event, h_pc, h, response>>

analyzerVars == <<analyzer>>

publisherVars == <<publisher>>

controllerVars == <<controller>>

trafficVars == <<traffic>>

restVars == <<generator, poller, logs, exp_backoff, health>>

vars ==
  <<prodVars, handlerVars, analyzerVars, publisherVars, controllerVars, trafficVars, restVars>>

(***************************************************************************)
(* Helpers                                                                 *)
(***************************************************************************)
RECURSIVE SumBytes(_)
SumBytes(s) == IF s = <<>> THEN 0 ELSE Head(s).bytes + SumBytes(Tail(s))

Ids(s) == {s[i].id : i \in 1..Len(s)}

RECURSIVE SelectIdx(_, _, _)
\* the records of s at the positions i (from k on) with keep[i], in order
SelectIdx(s, keep, k) ==
  IF k > Len(s) THEN <<>>
  ELSE IF keep[k] THEN <<s[k]>> \o SelectIdx(s, keep, k + 1)
  ELSE SelectIdx(s, keep, k + 1)

Min(a, b) == IF a < b THEN a ELSE b

IdleTask == [pc |-> "idle", rec |-> [id |-> 0, bytes |-> 0]]
\* send: pc, the batch taken from current_batch (batch_to_send), the batch of
\* the innermost _send_batch_with_retry (batch), and the history of this send:
\* the put_records calls made, the kinds of failure seen, the records skipped
\* as permanently failed, how often each record was counted in messages_failed
IdleSend ==
  [pc |-> "idle", batch_to_send |-> <<>>, batch |-> <<>>, calls |-> 0, seen |-> {},
   skipped |-> {}, failed_count |-> [i \in 1..MaxRecords |-> 0]]
\* hist.last_send: the send that ended in the last step, if one did
NoSend ==
  [result |-> "none", last |-> "none", batch |-> <<>>, calls |-> 0, seen |-> {},
   skipped |-> {}, failed_count |-> [i \in 1..MaxRecords |-> 0]]
Ended(p, result, last, batch) ==
  [result |-> result, last |-> last, batch |-> batch, calls |-> p.send.calls,
   seen |-> p.send.seen, skipped |-> p.send.skipped,
   failed_count |-> p.send.failed_count]

\* the producer's state as one record, so that the methods compose
Cur ==
  [current_batch |-> current_batch, lock_owner |-> lock_owner,
   lock_waiters |-> lock_waiters, batch_timer_task |-> batch_timer_task,
   task |-> task, send |-> send, attempt |-> attempt,
   messages_sent |-> messages_sent, messages_failed |-> messages_failed,
   circuit_breaker_failures |-> circuit_breaker_failures,
   circuit_breaker_last_failure |-> circuit_breaker_last_failure,
   hist |-> [hist EXCEPT !.last_send = NoSend],
   closed |-> closed, call |-> call, publishing_task |-> publishing_task,
   demo_task |-> demo_task, main_task |-> main_task]

Apply(p) ==
  /\ current_batch' = p.current_batch
  /\ lock_owner' = p.lock_owner
  /\ lock_waiters' = p.lock_waiters
  /\ batch_timer_task' = p.batch_timer_task
  /\ task' = p.task
  /\ send' = p.send
  /\ attempt' = p.attempt
  /\ messages_sent' = p.messages_sent
  /\ messages_failed' = p.messages_failed
  /\ circuit_breaker_failures' = p.circuit_breaker_failures
  /\ circuit_breaker_last_failure' = p.circuit_breaker_last_failure
  /\ hist' = p.hist
  /\ closed' = p.closed
  /\ call' = p.call
  /\ publishing_task' = p.publishing_task
  /\ demo_task' = p.demo_task
  /\ main_task' = p.main_task
  /\ UNCHANGED <<handlerVars, analyzerVars, publisherVars, controllerVars, trafficVars, restVars>>

(***************************************************************************)
(* ExponentialBackoff (kinesis_producer.py 107-144)                        *)
(***************************************************************************)
should_retry(a) == a < max_retries

\* get_delay(): the value of self.attempt after the call (the delay itself
\* only lengthens the sleep)
get_delay(a) == IF a >= max_retries THEN a ELSE a + 1

\* wait(): one get_delay(), then a sleep
wait(a) == get_delay(a)

(***************************************************************************)
(* BatchRequest (kinesis_producer.py 69-104)                               *)
(***************************************************************************)
\* mutant: a batch counts as full only beyond max_batch_size
is_full_beyond(batch) == Len(batch) > max_batch_size

is_full(batch) == Len(batch) >= max_batch_size

get_total_size_bytes(batch) == SumBytes(batch)

(***************************************************************************)
(* KinesisProducer: the lock, the timer, the metrics                       *)
(***************************************************************************)
\* KinesisProducer(enable_metrics=True), as main.py constructs it
enable_metrics == TRUE

\* leaving "async with self.batch_lock": the first waiter gets the lock
\* (asyncio.Lock is FIFO); the task t has nothing left to run
\* main.py: no demo task yet. pc is where DemoDataGenerator.start is, exit
\* why the loop was left, cancelled whether the task ended with CancelledError
NoDemo ==
  [pc |-> "none", is_running |-> FALSE, shutdown_requested |-> FALSE, entered |-> FALSE,
   exit |-> "none", cancelled |-> FALSE]

\* send_posts_batch (265-282): no call, or the call of a caller: where it is
\* (pc), the posts not yet handed to send_post (todo), the two counts, and
\* the first post and the length of the stream when it was called
NoCall == [pc |-> "idle", caller |-> "none", todo |-> 0, successful |-> 0, failed |-> 0,
           first |-> 0, stream_before |-> 0]

\* send_posts_batch counts a post by what send_post returned (every post counted as successful)
CountPost_all_successful(c, result) == [c EXCEPT !.successful = @ + 1]

\* send_posts_batch counts a post by what send_post returned (275-279)
CountPost(c, result) ==
  IF result THEN [c EXCEPT !.successful = @ + 1] ELSE [c EXCEPT !.failed = @ + 1]

\* the method task t awaited has returned: when it was called from
\* send_posts_batch, send_post has returned True (259) and is counted, or
\* flush has returned and send_posts_batch returns its counts (280-282)
Returns(p, t) ==
  IF p.call.caller # t THEN p
  ELSE IF p.call.pc = "send_post"
  THEN [p EXCEPT !.call = [CountPost(@, TRUE) EXCEPT !.pc = "posting"]]
  ELSE IF p.call.pc = "flush"
  THEN [p EXCEPT !.call.pc = "returned"]
  ELSE p

\* asyncio.Lock.release: the lock goes to the first waiter
Unlock(p) ==
  IF p.lock_waiters = <<>>
  THEN [p EXCEPT !.lock_owner = "none"]
  ELSE [p EXCEPT !.lock_owner = Head(p.lock_waiters),
                 !.lock_waiters = Tail(p.lock_waiters)]

Release(p, t) ==
  LET q == Unlock(p)
  IN  IF t = TimerTask
      THEN [q EXCEPT !.batch_timer_task = "done"]
      ELSE Returns([q EXCEPT !.task[t] = IdleTask], t)

\* self.metrics.messages_failed += (one for each record of s)
CountFailed(p, s) ==
  IF enable_metrics
  THEN [p EXCEPT !.messages_failed = @ + Len(s),
                 !.send.failed_count =
                    [i \in DOMAIN @ |-> IF i \in Ids(s) THEN @[i] + 1 ELSE @[i]]]
  ELSE p

\* self.metrics.messages_sent += batch_to_send.size()
CountSent(p, s) ==
  IF enable_metrics
  THEN [p EXCEPT !.messages_sent = @ + Len(s)]
  ELSE p

\* mutant: the breaker counts as open only after the timeout
IsCircuitBreakerOpen_after(p, t) ==
  IF p.circuit_breaker_failures < circuit_breaker_threshold THEN FALSE
  ELSE IF p.circuit_breaker_last_failure = NoTime THEN FALSE
  ELSE t - p.circuit_breaker_last_failure >= circuit_breaker_timeout

\* mutant: once the threshold is reached the breaker stays open
IsCircuitBreakerOpen_forever(p, t) ==
  IF p.circuit_breaker_failures < circuit_breaker_threshold THEN FALSE
  ELSE p.circuit_breaker_last_failure # NoTime

IsCircuitBreakerOpen(p, t) ==
  IF p.circuit_breaker_failures < circuit_breaker_threshold THEN FALSE
  ELSE IF p.circuit_breaker_last_failure = NoTime THEN FALSE
  ELSE t - p.circuit_breaker_last_failure < circuit_breaker_timeout

\* _put_records: the call is made and the task waits for the response
StartPut(p) ==
  [p EXCEPT !.send.pc = "put",
            !.send.calls = IF @ <= CallCap THEN @ + 1 ELSE CallCap,
            !.hist.submitted = @ \cup Ids(p.send.batch)]

\* _send_current_batch, the except branch (338-347): the send has failed
SendFailed(p, t, last) ==
  LET q == CountFailed(p, p.send.batch_to_send)
  IN  [q EXCEPT !.circuit_breaker_failures = @ + 1,
                !.circuit_breaker_last_failure = t,
                !.send = IdleSend,
                !.hist.last_send = Ended(q, "failed", last, p.send.batch_to_send)]

\* mutant: a successful send leaves the failure count as it is
SendSucceeded_no_reset(p, last) ==
  LET q == CountSent(p, p.send.batch_to_send)
  IN  [q EXCEPT !.send = IdleSend,
                !.hist.last_send = Ended(q, "ok", last, p.send.batch_to_send)]

\* _send_current_batch, after _send_batch_with_retry returned (327-336)
SendSucceeded(p, last) ==
  LET q == CountSent(p, p.send.batch_to_send)
  IN  [q EXCEPT !.circuit_breaker_failures = 0,
                !.send = IdleSend,
                !.hist.last_send = Ended(q, "ok", last, p.send.batch_to_send)]

\* the head of the while loop of _send_batch_with_retry (353-355, 404-405):
\* one more put_records call, or "Failed to send batch after N retries"
RetryLoop(p, t, last) ==
  IF should_retry(p.attempt) THEN StartPut(p) ELSE SendFailed(p, t, last)

\* _send_batch_with_retry(batch): reset the backoff and enter the loop.
\* A nested call (from _handle_partial_failure) is a tail call: when it
\* returns the caller returns (365-366), and what it raises the caller
\* raises again (393; 395-405 with attempt = max_retries left by the callee).
SendBatchWithRetry(p, batch, t) ==
  RetryLoop([p EXCEPT !.attempt = 0, !.send.batch = batch], t, "none")

\* _handle_partial_failure (422-448); codes[i] is the result of record i
HandlePartialFailure(p, codes, t) ==
  LET batch == p.send.batch
      throttled == [i \in 1..Len(batch) |->
                      codes[i] = "ProvisionedThroughputExceededException"]
      other == [i \in 1..Len(batch) |->
                      codes[i] \notin {"ok", "ProvisionedThroughputExceededException"}]
      failed_records == SelectIdx(batch, throttled, 1)
      skipped == SelectIdx(batch, other, 1)
      q == [CountFailed(p, skipped) EXCEPT !.send.skipped = @ \cup Ids(skipped)]
  IN  IF failed_records # <<>>
      THEN SendBatchWithRetry(q, failed_records, t)
      ELSE q

\* PartitionKeyDistributor (146-177): the key of a post is its user id and
\* the index md5(user id) % num_partitions, so a function of the user alone.
\* The posts of the model are numbered in the order they are handed to the
\* producer; the first two are of one user.
num_partitions == 1000

user_id(i) == IF i <= 2 THEN "user_a" ELSE "user_b"

partition_index(user) == (IF user = "user_a" THEN 46247 ELSE 7152) % num_partitions

get_partition_key(i) == <<user_id(i), partition_index(user_id(i))>>

\* the stream after a put_records call: the records of the call that the
\* service accepted are in the stream, in the order of the call
Accepted(p, codes) ==
  [p EXCEPT !.hist.stream =
     @ \o SelectIdx([i \in 1..Len(p.send.batch) |-> p.send.batch[i].id],
                    [i \in 1..Len(p.send.batch) |-> codes[i] = "ok"], 1)]

\* _send_batch_with_retry: put_records returned a response (356-366)
OnResponse(p0, codes, t) ==
  LET p == Accepted(p0, codes) IN
  IF \A i \in 1..Len(p.send.batch) : codes[i] = "ok"
  THEN SendSucceeded(p, "ok")
  ELSE LET p1 == [p EXCEPT !.send.seen = @ \cup {"partial"}, !.send.pc = "handling"]
           q == HandlePartialFailure(p1, codes, t)
       IN  IF q.send.pc = "handling"
           THEN SendSucceeded(q, "partial")   \* nothing was resubmitted: return
           ELSE q                             \* the resubmission is under way

\* the kind of failure a ClientError code is
KindOf(code) ==
  IF code = "ProvisionedThroughputExceededException" THEN "throttle"
  ELSE IF code \in {"InternalFailure", "ServiceUnavailable"} THEN "transient"
  ELSE "client_other"

\* mutant: every ClientError is retried like a transient service error
OnClientError_retry_all(p, code, t) ==
  LET p1 == [p EXCEPT !.send.seen = @ \cup {KindOf(code)}]
  IN  IF code = "ProvisionedThroughputExceededException"
      THEN RetryLoop([p1 EXCEPT !.attempt = wait(get_delay(@))], t, "throttle")
      ELSE RetryLoop([p1 EXCEPT !.attempt = wait(@)], t, KindOf(code))

\* _send_batch_with_retry: put_records raised a ClientError (368-393)
OnClientError(p, code, t) ==
  LET p1 == [p EXCEPT !.send.seen = @ \cup {KindOf(code)}]
  IN  IF code = "ProvisionedThroughputExceededException"
      THEN \* the warning's f-string calls get_delay(), then wait() does
           RetryLoop([p1 EXCEPT !.attempt = wait(get_delay(@))], t, "throttle")
      ELSE IF code \in {"InternalFailure", "ServiceUnavailable"}
      THEN RetryLoop([p1 EXCEPT !.attempt = wait(@)], t, "transient")
      ELSE SendFailed(p1, t, "client_other")

\* _send_batch_with_retry: put_records raised anything else (395-402)
OnOtherError(p, t) ==
  LET p1 == [p EXCEPT !.send.seen = @ \cup {"network"}]
  IN  RetryLoop([p1 EXCEPT !.attempt = wait(@)], t, "network")

\* mutant: the batch handed to the send stays the current batch
SendCurrentBatch_keeps_batch(p, t) ==
  IF Len(p.current_batch) = 0 THEN p
  ELSE IF IsCircuitBreakerOpen(p, t)
  THEN LET q == CountFailed(p, p.current_batch)
       IN  [q EXCEPT !.current_batch = <<>>,
                     !.send = IdleSend,
                     !.hist.dropped = @ \cup Ids(p.current_batch),
                     !.hist.last_send = Ended(q, "dropped", "none", p.current_batch)]
  ELSE SendBatchWithRetry(
         [p EXCEPT !.send = [IdleSend EXCEPT !.batch_to_send = p.current_batch]],
         p.current_batch, t)

\* _send_current_batch (306-325), called with the lock held
SendCurrentBatch(p, t) ==
  IF Len(p.current_batch) = 0 THEN p
  ELSE IF IsCircuitBreakerOpen(p, t)
  THEN LET q == CountFailed(p, p.current_batch)
       IN  [q EXCEPT !.current_batch = <<>>,
                     !.send = IdleSend,
                     !.hist.dropped = @ \cup Ids(p.current_batch),
                     !.hist.last_send = Ended(q, "dropped", "none", p.current_batch)]
  ELSE SendBatchWithRetry(
         [p EXCEPT !.current_batch = <<>>,
                   !.send = [IdleSend EXCEPT !.batch_to_send = p.current_batch]],
         p.current_batch, t)

\* the task tk has run to its next suspension point: it waits for put_records
\* holding the lock, or it has left the lock and is finished
Finish(p, tk) ==
  IF p.send.pc = "put"
  THEN IF tk = TimerTask
       THEN [p EXCEPT !.batch_timer_task = "sending"]
       ELSE [p EXCEPT !.task[tk].pc = "sending"]
  ELSE Release(p, tk)

\* mutant: the timer is started only when none was ever started (no done() test)
ArmTimer_once(p) ==
  IF p.batch_timer_task = "none"
  THEN [p EXCEPT !.batch_timer_task = "sleeping"]
  ELSE p

\* _add_to_batch 294-296: start the timer unless one is running
ArmTimer(p) ==
  IF p.batch_timer_task \in {"none", "done"}
  THEN [p EXCEPT !.batch_timer_task = "sleeping"]
  ELSE p

\* _add_to_batch (284-296), the body under the lock
AddToBatch(p, tk, rec, t) ==
  LET p1 == [p EXCEPT !.current_batch = Append(@, rec)]
  IN  IF is_full(p1.current_batch) \/ get_total_size_bytes(p1.current_batch) > ByteLimit
      THEN Finish(SendCurrentBatch(p1, t), tk)
      ELSE Release(ArmTimer(p1), tk)

\* flush (461-465) and _batch_timeout (302-304), the body under the lock
FlushBody(p, tk, t) ==
  IF Len(p.current_batch) > 0
  THEN Finish(SendCurrentBatch(p, t), tk)
  ELSE Release(p, tk)

\* "async with self.batch_lock" when the lock is free
Acquire(p, tk) == [p EXCEPT !.lock_owner = tk]

\* "async with self.batch_lock" when the lock is held: wait in line
Enqueue(p, tk) == [p EXCEPT !.lock_waiters = Append(@, tk)]

\* close 520-526: batch_timer_task.cancel() and the await of the cancelled
\* task. The CancelledError is raised at the await the timer task is
\* suspended in: its sleep (300), its wait for the lock (302), or the
\* put_records call or backoff sleep of its send; there it passes the except
\* clauses of _send_batch_with_retry and _send_current_batch (it is no
\* Exception), so that the send neither fails nor succeeds, and leaves the lock.
CancelTimer(p) ==
  IF p.batch_timer_task \in {"none", "done"} THEN p
  ELSE IF p.batch_timer_task = "sleeping" THEN [p EXCEPT !.batch_timer_task = "done"]
  ELSE IF p.batch_timer_task = "waiting"
  THEN IF p.lock_owner = TimerTask
       THEN Release(p, TimerTask)
       ELSE [p EXCEPT !.lock_waiters = SelectSeq(@, LAMBDA w : w # TimerTask),
                      !.batch_timer_task = "done"]
  ELSE Release([p EXCEPT !.send = IdleSend,
                         !.hist.last_send =
                            Ended(p, "cancelled", "none", p.send.batch_to_send)],
               TimerTask)

\* a change of close: the timer is cancelled, the pending batch is not flushed
CloseBody_no_flush(p, tk, t) ==
  [CancelTimer(p) EXCEPT !.closed = "closing"]

\* close (516-533) run by task tk: cancel the timer, then flush()
CloseBody(p, tk, t) ==
  LET q == [CancelTimer(p) EXCEPT !.closed = "closing"]
  IN  IF q.lock_owner = "none"
      THEN FlushBody(Acquire(q, tk), tk, t)
      ELSE [Enqueue(q, tk) EXCEPT !.task[tk].pc = "flush_wait"]

(***************************************************************************)
(* Actions of the producer                                                 *)
(***************************************************************************)
\* send_post(post) -> _add_to_batch(record)
\* (limit posts are handed over in all, with payload sizes drawn from sizes)
SendPost(c, limit, sizes) ==
  /\ task[c].pc = "idle"
  /\ next_id <= limit
  /\ \E sz \in sizes :
       LET rec == [id |-> next_id, bytes |-> sz]
       IN  IF lock_owner = "none"
           THEN Apply(AddToBatch(Acquire(Cur, c), c, rec, now))
           ELSE Apply([Enqueue(Cur, c) EXCEPT !.task[c] = [pc |-> "add_wait", rec |-> rec]])
  /\ next_id' = next_id + 1
  /\ UNCHANGED now

\* _add_to_batch gets the lock it waited for
AddResumes(c) ==
  /\ task[c].pc = "add_wait"
  /\ lock_owner = c
  /\ Apply(AddToBatch(Cur, c, task[c].rec, now))
  /\ UNCHANGED <<now, next_id>>

\* flush()
Flush(c) ==
  /\ task[c].pc = "idle"
  /\ IF lock_owner = "none"
     THEN Apply(FlushBody(Acquire(Cur, c), c, now))
     ELSE Apply([Enqueue(Cur, c) EXCEPT !.task[c].pc = "flush_wait"])
  /\ UNCHANGED <<now, next_id>>

FlushResumes(c) ==
  /\ task[c].pc = "flush_wait"
  /\ lock_owner = c
  /\ Apply(FlushBody(Cur, c, now))
  /\ UNCHANGED <<now, next_id>>

\* _batch_timeout: the sleep of max_batch_wait_ms is over
BatchTimeout ==
  /\ batch_timer_task = "sleeping"
  /\ IF lock_owner = "none"
     THEN Apply(FlushBody(Acquire(Cur, TimerTask), TimerTask, now))
     ELSE Apply([Enqueue(Cur, TimerTask) EXCEPT !.batch_timer_task = "waiting"])
  /\ UNCHANGED <<now, next_id>>

BatchTimeoutResumes ==
  /\ batch_timer_task = "waiting"
  /\ lock_owner = TimerTask
  /\ Apply(FlushBody(Cur, TimerTask, now))
  /\ UNCHANGED <<now, next_id>>

\* close(), called by the task that used the producer when it leaves the
\* managed scope (main.py 129-130): no call of the producer is in progress
\* _create_metrics_snapshot (cloudwatch_metrics.py 333-367): the counters of
\* the window as they are when the publish cycle reads them
create_metrics_snapshot(p) ==
  [messages_sent |-> p.messages_sent, messages_failed |-> p.messages_failed]

\* ProducerMetrics.reset (the counters are left as they are)
reset_nothing(p) == p

\* ProducerMetrics.reset (57-66)
reset(p) == [p EXCEPT !.messages_sent = 0, !.messages_failed = 0]

\* publish_current_metrics (499-509): publish_producer_metrics takes the
\* snapshot and queues its data points (cloudwatch_metrics.py 310-331), then
\* the counters are reset; nothing in between suspends the task
publish_current_metrics(p) ==
  LET snapshot == create_metrics_snapshot(p)
      q == [p EXCEPT !.hist.published =
                        [messages_sent |-> @.messages_sent + snapshot.messages_sent,
                         messages_failed |-> @.messages_failed + snapshot.messages_failed]]
  IN  reset(q)

\* _publishing_loop (487-497): the sleep is over, the callback
\* publish_current_metrics runs and flush_metrics starts to put the queued
\* data points
PublishingLoopWakes ==
  /\ publishing_task.pc = "sleeping"
  /\ publishing_task.cycles < MaxCycles
  /\ Apply([publish_current_metrics(Cur) EXCEPT
              !.publishing_task = [@ EXCEPT !.pc = "flushing", !.cycles = @ + 1]])
  /\ UNCHANGED <<now, next_id>>

\* _publishing_loop: flush_metrics has returned, the loop sleeps again
FlushMetricsReturns ==
  /\ publishing_task.pc = "flushing"
  /\ Apply([Cur EXCEPT !.publishing_task.pc = "sleeping"])
  /\ UNCHANGED <<now, next_id>>

\* _publishing_loop: putting the metric data fails; _publish_single_batch
\* logs and drops it (cloudwatch_metrics.py 519-588), the loop sleeps again
FlushMetricsFails ==
  /\ publishing_task.pc = "flushing"
  /\ Apply([Cur EXCEPT !.publishing_task = [@ EXCEPT !.pc = "sleeping", !.failed = 1]])
  /\ UNCHANGED <<now, next_id>>

\* send_posts_batch is called with n posts (265-272)
SendPostsBatch(c, n) ==
  /\ call.pc \in {"idle", "returned"}
  /\ task[c].pc = "idle"
  /\ next_id + n - 1 <= BatchCallRecords
  /\ Apply([Cur EXCEPT !.call = [pc |-> "posting", caller |-> c, todo |-> n,
                                  successful |-> 0, failed |-> 0, first |-> next_id,
                                  stream_before |-> Len(hist.stream)]])
  /\ UNCHANGED <<now, next_id>>

\* send_posts_batch hands the next post to send_post (274-275), which
\* serializes it and adds it to the batch (240-258)
BatchSendPost(c, sizes) ==
  /\ call.pc = "posting" /\ call.caller = c /\ call.todo > 0
  /\ \E sz \in sizes :
       LET rec == [id |-> next_id, bytes |-> sz]
           p == [Cur EXCEPT !.call.pc = "send_post", !.call.todo = @ - 1]
       IN  IF lock_owner = "none"
           THEN Apply(AddToBatch(Acquire(p, c), c, rec, now))
           ELSE Apply([Enqueue(p, c) EXCEPT !.task[c] = [pc |-> "add_wait", rec |-> rec]])
  /\ next_id' = next_id + 1
  /\ UNCHANGED now

\* send_post: serializing the post raises; it is counted in messages_failed
\* and send_post returns False (260-263)
BatchSendPostFails(c) ==
  /\ call.pc = "posting" /\ call.caller = c /\ call.todo > 0
  /\ Apply([Cur EXCEPT !.call = [CountPost(@, FALSE) EXCEPT !.todo = @ - 1],
                        !.messages_failed = @ + 1,
                        !.hist.rejected = @ \cup {next_id}])
  /\ next_id' = next_id + 1
  /\ UNCHANGED now

\* send_posts_batch: every post was handed over; flush (281)
BatchFlush(c) ==
  /\ call.pc = "posting" /\ call.caller = c /\ call.todo = 0
  /\ LET p == [Cur EXCEPT !.call.pc = "flush"]
     IN  IF lock_owner = "none"
         THEN Apply(FlushBody(Acquire(p, c), c, now))
         ELSE Apply([Enqueue(p, c) EXCEPT !.task[c].pc = "flush_wait"])
  /\ UNCHANGED <<now, next_id>>

Close(c) ==
  /\ closed = "open"
  /\ \A d \in Callers : task[d].pc = "idle"
  /\ Apply(CloseBody(Cur, c, now))
  /\ UNCHANGED <<now, next_id>>

\* close returns: its flush() has returned
CloseReturns ==
  /\ closed = "closing"
  /\ \A d \in Callers : task[d].pc = "idle"
  /\ Apply([Cur EXCEPT !.closed = "closed"])
  /\ UNCHANGED <<now, next_id>>

\* put_records returns a response, with a result for each record
\* (results: the per-record results the service gives)
PutRecordsReturns(results) ==
  /\ send.pc = "put"
  /\ \E codes \in [1..Len(send.batch) -> results] :
       Apply(Finish(OnResponse(Cur, codes, now), lock_owner))
  /\ UNCHANGED <<now, next_id>>

\* put_records raises a ClientError
PutRecordsClientError(error_codes) ==
  /\ send.pc = "put"
  /\ \E code \in error_codes :
       Apply(Finish(OnClientError(Cur, code, now), lock_owner))
  /\ UNCHANGED <<now, next_id>>

\* put_records raises a BotoCoreError or another exception
PutRecordsOtherError ==
  /\ send.pc = "put"
  /\ Apply(Finish(OnOtherError(Cur, now), lock_owner))
  /\ UNCHANGED <<now, next_id>>

\* time passes
Tick ==
  /\ now + TickSeconds <= MaxTime
  /\ now' = now + TickSeconds
  /\ hist' = [hist EXCEPT !.last_send = NoSend]
  /\ UNCHANGED <<handlerVars, analyzerVars, publisherVars, controllerVars, trafficVars, restVars>>
  /\ UNCHANGED <<current_batch, lock_owner, lock_waiters, batch_timer_task, task, send,
                 attempt, messages_sent, messages_failed, circuit_breaker_failures,
                 circuit_breaker_last_failure, next_id, closed, call, publishing_task,
                 demo_task, main_task>>

InitProducer ==
  /\ current_batch = <<>>
  /\ lock_owner = "none"
  /\ lock_waiters = <<>>
  /\ batch_timer_task = "none"
  /\ task = [c \in Callers |-> IdleTask]
  /\ send = IdleSend
  /\ attempt = 0
  /\ messages_sent = 0
  /\ messages_failed = 0
  /\ circuit_breaker_failures = 0
  /\ circuit_breaker_last_failure = NoTime
  /\ now = 0
  /\ next_id = 1
  /\ hist = [submitted |-> {}, dropped |-> {}, stream |-> <<>>, rejected |-> {},
             published |-> [messages_sent |-> 0, messages_failed |-> 0],
             last_send |-> NoSend]
  /\ closed = "open"
  /\ call = NoCall
  /\ publishing_task = [pc |-> "sleeping", cycles |-> 0, failed |-> 0]
  /\ demo_task = NoDemo
  /\ main_task = [pc |-> "none", signal |-> FALSE]

(***************************************************************************)
(* The stream-consumer handler (lambda_handler.py 57-322)                  *)
(***************************************************************************)
\* the locals of handler() before the try block
NoLocals ==
  [posts |-> <<>>, post_to_sequence |-> [x \in PostIds |-> 0],
   failed_sequence_numbers |-> <<>>, failed_records |-> 0, successful_records |-> 0,
   post_batches |-> <<>>, i |-> 0, all_sentiment_results |-> <<>>,
   remaining_time_ms |-> 0, call_times |-> <<>>, timed_out |-> FALSE, caught |-> FALSE]

\* no invocation
HandlerIdle ==
  /\ event = <<>>
  /\ h_pc = "idle"
  /\ h = NoLocals
  /\ response = <<>>

\* record k of the event carries the sequence number k
sequenceNumber(k) == k

\* RecordDeserializer.deserialize_record (deserializer.py 54-134): the post, or
\* None for a missing data field, data that is no base64, bytes that are no
\* post. A post keeps, besides its id, the index of the record it came from
\* (which the code does not have).
NoPost == [id |-> "none", rec |-> 0]
deserialize_record(data, k) ==
  IF data = "missing" THEN NoPost
  ELSE IF data = "bad_base64" THEN NoPost
  ELSE IF data = "bad_json" THEN NoPost
  ELSE [id |-> data, rec |-> k]

\* a change of handler 130-134: the failure is counted, its sequence number is not kept
deserialization_failed_uncounted(l, sequence_number) ==
  [l EXCEPT !.failed_records = @ + 1]

\* handler 130-134: a record that did not deserialize
deserialization_failed(l, sequence_number) ==
  [l EXCEPT !.failed_records = @ + 1,
            !.failed_sequence_numbers =
               IF sequence_number # 0 THEN Append(@, sequence_number) ELSE @]

RECURSIVE DeserializeFrom(_, _, _)
\* handler 120-134: the loop over event['Records'], from record k on
DeserializeFrom(ev, k, l) ==
  IF k > Len(ev) THEN l
  ELSE LET sequence_number == sequenceNumber(k)
           post == deserialize_record(ev[k], k)
       IN  IF post # NoPost
           THEN DeserializeFrom(ev, k + 1,
                  [l EXCEPT !.posts = Append(@, post),
                            !.post_to_sequence[post.id] = sequence_number])
           ELSE DeserializeFrom(ev, k + 1, deserialization_failed(l, sequence_number))

RECURSIVE create_batches(_, _)
\* BatchProcessor.create_batches (batch_processor.py 46-87)
create_batches(posts, size) ==
  IF posts = <<>> THEN <<>>
  ELSE IF Len(posts) <= size THEN <<posts>>
  ELSE <<SubSeq(posts, 1, size)>> \o create_batches(SubSeq(posts, size + 1, Len(posts)), size)

InSeq(x, s) == \E j \in 1..Len(s) : s[j] = x

RECURSIVE MarkFailed(_, _)
\* handler 176-180 and 205-209: the posts of batch are marked as failed
MarkFailed(l, batch) ==
  IF batch = <<>> THEN l
  ELSE LET seq_num == l.post_to_sequence[Head(batch).id]
       IN  IF seq_num # 0 /\ ~InSeq(seq_num, l.failed_sequence_numbers)
           THEN MarkFailed([l EXCEPT !.failed_sequence_numbers = Append(@, seq_num),
                                     !.failed_records = @ + 1], Tail(batch))
           ELSE MarkFailed(l, Tail(batch))

RECURSIVE Flatten(_)
Flatten(ss) == IF ss = <<>> THEN <<>> ELSE Head(ss) \o Flatten(Tail(ss))

\* handler 150-154 and 296-300: the sequence number of every record that has one
all_sequence_numbers(ev) ==
  SelectSeq([k \in 1..Len(ev) |-> sequenceNumber(k)], LAMBDA x : x # 0)

\* _create_response (304-322): batchItemFailures, as the list of its identifiers
create_response(failed_sequence_numbers) == failed_sequence_numbers

\* handler 78-112: configuration and components, before the try block;
\* int(os.environ.get('DEMO_PHASE', '0')) raises when the value is no number
HandlerStart ==
  /\ h_pc = "start"
  /\ \E demo_phase_is_int \in BOOLEAN :
       h_pc' = IF demo_phase_is_int THEN "deserialize" ELSE "raised"
  /\ UNCHANGED <<event, h, response, prodVars, analyzerVars, publisherVars, controllerVars, trafficVars, restVars>>

\* handler 277-301: the except branch of the try block
ExceptBranch ==
  /\ h' = [h EXCEPT !.caught = TRUE]
  /\ response' = create_response(all_sequence_numbers(event))
  /\ h_pc' = "returned"

\* handler 115-140: deserialize every record
Deserialize ==
  /\ h_pc = "deserialize"
  /\ LET l == DeserializeFrom(event, 1, h)
     IN  /\ h' = l
         /\ IF l.posts = <<>>
            THEN /\ response' = create_response(l.failed_sequence_numbers)
                 /\ h_pc' = "returned"
            ELSE /\ h_pc' = "check_time"
                 /\ UNCHANGED response
  /\ UNCHANGED <<event, prodVars, analyzerVars, publisherVars, controllerVars, trafficVars, restVars>>

\* handler 142-160: the remaining time before any model work;
\* context.get_remaining_time_in_millis() returns a time, or raises
CheckTime ==
  /\ h_pc = "check_time"
  /\ \/ \E remaining_time_ms \in RemainingTimes :
          IF remaining_time_ms < 30000
          THEN /\ h' = [h EXCEPT !.remaining_time_ms = remaining_time_ms,
                                 !.timed_out = TRUE]
               /\ response' = create_response(all_sequence_numbers(event))
               /\ h_pc' = "returned"
          ELSE /\ h' = [h EXCEPT !.remaining_time_ms = remaining_time_ms,
                                 !.post_batches = create_batches(h.posts, handler_batch_size),
                                 !.i = 0]
               /\ h_pc' = "loop"
               /\ UNCHANGED response
     \/ ExceptBranch
  /\ UNCHANGED <<event, prodVars, analyzerVars, publisherVars, controllerVars, trafficVars, restVars>>

\* handler 165-181: the head of the loop over the sub-batches, with the
\* remaining time read before each of them (time does not come back)
LoopHead ==
  /\ h_pc = "loop"
  /\ IF h.i >= Len(h.post_batches)
     THEN /\ h_pc' = "after_loop"
          /\ UNCHANGED <<h, response>>
     ELSE \/ \E remaining_time_ms \in {r \in RemainingTimes : r <= h.remaining_time_ms} :
               IF remaining_time_ms < 30000
               THEN /\ h' = [MarkFailed(h, Flatten(SubSeq(h.post_batches, h.i + 1,
                                                         Len(h.post_batches))))
                               EXCEPT !.remaining_time_ms = remaining_time_ms,
                                      !.timed_out = TRUE]
                    /\ h_pc' = "after_loop"
                    /\ UNCHANGED response
               ELSE /\ h' = [h EXCEPT !.remaining_time_ms = remaining_time_ms]
                    /\ h_pc' = "analyze"
                    /\ UNCHANGED response
          \/ ExceptBranch
  /\ UNCHANGED <<event, prodVars, analyzerVars, publisherVars, controllerVars, trafficVars, restVars>>

\* handler 183-209: sentiment_analyzer.analyze_batch(batch) returns one
\* result for each post of the batch, or raises
Analyze ==
  /\ h_pc = "analyze"
  /\ LET batch == h.post_batches[h.i + 1]
         l == [h EXCEPT !.call_times = Append(@, h.remaining_time_ms), !.i = @ + 1]
     IN  \E raises \in BOOLEAN :
           h' = IF raises
                THEN MarkFailed(l, batch)
                ELSE [l EXCEPT !.all_sentiment_results = @ \o batch,
                               !.successful_records = @ + Len(batch)]
  /\ h_pc' = "loop"
  /\ UNCHANGED <<event, response, prodVars, analyzerVars, publisherVars, controllerVars, trafficVars, restVars>>

\* handler 211-275: the insights and the metrics (their failures are caught
\* and logged, 248-249 and 265-266), and the response
AfterLoop ==
  /\ h_pc = "after_loop"
  /\ response' = create_response(h.failed_sequence_numbers)
  /\ h_pc' = "returned"
  /\ UNCHANGED <<event, h, prodVars, analyzerVars, publisherVars, controllerVars, trafficVars, restVars>>

\* an invocation with an event of up to MaxEvent records
InitHandler ==
  /\ event \in UNION {[1..n -> RecordData] : n \in 0..MaxEvent}
  /\ h_pc = "start"
  /\ h = NoLocals
  /\ response = <<>>

(***************************************************************************)
(* CloudWatchMetricsPublisher (cloudwatch_metrics.py): the buffer, the     *)
(* periodic task ("loop") and a task calling the API ("caller").           *)
(* buffer_lock is held only over code that does not suspend (465-466, 472-479), so  *)
(* it is never contended and is not a variable.  Metric points are         *)
(* numbered in the order they are buffered.                                *)
(***************************************************************************)
Flushers == {"loop", "caller"}

Range(seq) == {seq[j] : j \in DOMAIN seq}

\* a put_metric_data call returns, or raises a ClientError whose response
\* carries a code and perhaps a message, or raises something else
PutMetricDataErrors ==
  [cls : {"ClientError"},
   code : {"Throttling", "AccessDenied", "InternalServiceError"},
   message : BOOLEAN]
  \cup {[cls |-> "Exception", code |-> "none", message |-> FALSE]}

\* _publish_single_batch (544-545): max_retries = 3, base_delay = 1.0
publish_max_retries == 3

base_delay == 1

\* one flush_metrics call: the points it took from the buffer, the offset i
\* of the chunk being published, the attempt and the delays slept for that
\* chunk, the error code that answered its last call, the MetricData of
\* every put_metric_data call made, the exception that ended the flush
NoFlush ==
  [pc |-> "idle", taken |-> <<>>, i |-> 0, attempt |-> 0, delays |-> <<>>,
   last |-> "none", calls |-> <<>>, error |-> "none"]

NoPublisher ==
  [metrics_buffer |-> <<>>, is_running |-> FALSE, next_point |-> 1,
   op |-> "none", before_stop |-> {}, submitted |-> {},
   flush |-> [f \in Flushers |-> IF f = "loop" THEN [NoFlush EXCEPT !.pc = "none"]
                                                ELSE NoFlush]]

PublisherIdle == publisher = NoPublisher

\* _publish_metrics_batch (515-516): batch = metrics[i:i + self.max_batch_size]
Chunk(f) == SubSeq(f.taken, f.i + 1, Min(f.i + metrics_max_batch_size, Len(f.taken)))

\* _publish_single_batch (547-556): put_metric_data is called with the chunk
PutMetricData(q, who) ==
  [q EXCEPT !.flush[who].pc = "put",
            !.flush[who].calls = Append(@, Chunk(q.flush[who])),
            !.submitted = @ \cup Range(Chunk(q.flush[who]))]

\* what the flusher goes on with when flush_metrics has returned (ok) or
\* raised: the periodic task tests is_running again (489) or sleeps in its
\* except clause (504-507); the caller gets the result
FlushEnds(q, who, error) ==
  IF who = "loop"
  THEN IF error # "none"
       THEN [q EXCEPT !.flush[who].pc = "error_sleep", !.flush[who].error = error]
       ELSE [q EXCEPT !.flush[who].pc = IF q.is_running THEN "sleeping" ELSE "done"]
  ELSE [q EXCEPT !.flush[who].pc = IF error # "none" THEN "raised" ELSE "returned",
                 !.flush[who].error = error]

\* _publish_metrics_batch (515-517): the chunk at offset i is published
StartChunk(q, who) ==
  PutMetricData([q EXCEPT !.flush[who].attempt = 0, !.flush[who].delays = <<>>,
                          !.flush[who].last = "none"], who)

\* _publish_metrics_batch (515): the next chunk, or the flush returns
NextChunk(q, who) ==
  LET r == [q EXCEPT !.flush[who].i = @ + metrics_max_batch_size]
  IN  IF r.flush[who].i < Len(r.flush[who].taken)
      THEN StartChunk(r, who)
      ELSE FlushEnds(r, who, "none")

\* _publish_single_batch (565): attempt < max_retries - 1
ShouldRetryThrottled(att) == att < publish_max_retries - 1

\* _publish_single_batch (561-588): the call raised
PutMetricDataRaised(q0, who, e) ==
  LET q == [q0 EXCEPT !.flush[who].last = e.code]
      f == q.flush[who]
      backoff == [q EXCEPT !.flush[who].pc = "backoff",
                           !.flush[who].delays = Append(@, base_delay * 2 ^ f.attempt)]
  IN  IF e.cls = "ClientError"
      THEN IF ~e.message
           THEN \* e.response['Error']['Message'] (563) raises KeyError in the handler
                FlushEnds(q, who, "KeyError")
           ELSE IF e.code = "Throttling" /\ ShouldRetryThrottled(f.attempt) THEN backoff
           ELSE IF e.code = "AccessDenied" THEN NextChunk(q, who)
           ELSE IF f.attempt = publish_max_retries - 1 THEN NextChunk(q, who)
           ELSE PutMetricData([q EXCEPT !.flush[who].attempt = @ + 1], who)
      ELSE IF f.attempt < publish_max_retries - 1 THEN backoff
           ELSE NextChunk(q, who)

\* mutant: the buffer is copied and not cleared
TakeBuffer_keeps_buffer(q, who) ==
  [q EXCEPT !.flush[who] = [NoFlush EXCEPT !.taken = q.metrics_buffer]]

\* flush_metrics (477-478): metrics_to_publish = copy of the buffer, buffer cleared
TakeBuffer(q, who) ==
  [q EXCEPT !.flush[who] = [NoFlush EXCEPT !.taken = q.metrics_buffer],
            !.metrics_buffer = <<>>]

\* flush_metrics (470-481) up to its first suspension
FlushMetrics(q, who) ==
  IF q.metrics_buffer = <<>>
  THEN FlushEnds([q EXCEPT !.flush[who] = NoFlush], who, "none")
  ELSE StartChunk(TakeBuffer(q, who), who)

\* publish_custom_metric / publish_producer_metrics (327-329, 465-466): k
\* points are appended to the buffer
Buffer(q, k) ==
  [q EXCEPT !.metrics_buffer = @ \o [j \in 1..k |-> q.next_point + j - 1],
            !.next_point = @ + k]

\* publish_custom_metric (442-468), called by any task
PublishCustomMetric ==
  /\ publisher.next_point <= MaxPoints
  /\ publisher' = Buffer(publisher, 1)
  /\ UNCHANGED <<prodVars, handlerVars, analyzerVars, controllerVars, trafficVars, restVars>>

\* start_publishing (282-293); the permission test publishes a point of its
\* own and swallows what that raises (595-611)
StartPublishing ==
  /\ publisher.op \in {"none"}
  /\ publisher.flush["caller"].pc \in {"idle", "returned", "raised"}
  /\ ~publisher.is_running
  /\ publisher.flush["loop"].pc \in {"none", "done"}
  /\ publisher' = [publisher EXCEPT !.is_running = TRUE,
                                    !.flush["loop"] = [NoFlush EXCEPT !.pc = "sleeping"]]
  /\ UNCHANGED <<prodVars, handlerVars, analyzerVars, controllerVars, trafficVars, restVars>>

\* _publishing_loop (489-500): the sleep is over, the callback (if any) has
\* buffered k points, flush_metrics is called
PublishingLoopFlushes(k) ==
  /\ publisher.flush["loop"].pc = "sleeping"
  /\ publisher.next_point + k - 1 <= MaxPoints
  /\ publisher' = FlushMetrics(Buffer(publisher, k), "loop")
  /\ UNCHANGED <<prodVars, handlerVars, analyzerVars, controllerVars, trafficVars, restVars>>

\* _publishing_loop (504-507): the sleep(1) of the except clause is over
PublishingLoopErrorSleepEnds ==
  /\ publisher.flush["loop"].pc = "error_sleep"
  /\ publisher' = [publisher EXCEPT
                     !.flush["loop"].pc = IF publisher.is_running THEN "sleeping" ELSE "done"]
  /\ UNCHANGED <<prodVars, handlerVars, analyzerVars, controllerVars, trafficVars, restVars>>

\* flush_metrics called by the caller (470-481)
CallerFlushes ==
  /\ publisher.op = "none"
  /\ publisher.flush["caller"].pc \in {"idle", "returned", "raised"}
  /\ publisher.metrics_buffer # <<>>
  /\ publisher' = FlushMetrics([publisher EXCEPT !.op = "flush"], "caller")
  /\ UNCHANGED <<prodVars, handlerVars, analyzerVars, controllerVars, trafficVars, restVars>>

\* the caller goes on after flush_metrics or stop_publishing has ended
CallerGoesOn ==
  /\ publisher.op # "none"
  /\ publisher.flush["caller"].pc \in {"returned", "raised"}
  /\ publisher' = [publisher EXCEPT !.op = "none", !.flush["caller"] = NoFlush]
  /\ UNCHANGED <<prodVars, handlerVars, analyzerVars, controllerVars, trafficVars, restVars>>

\* put_metric_data returns (550-559): the next chunk, or the flush is over
PutMetricDataReturns(who) ==
  /\ publisher.flush[who].pc = "put"
  /\ publisher' = NextChunk(publisher, who)
  /\ UNCHANGED <<prodVars, handlerVars, analyzerVars, controllerVars, trafficVars, restVars>>

\* put_metric_data raises (561-588)
PutMetricDataRaises(who, e) ==
  /\ publisher.flush[who].pc = "put"
  /\ publisher' = PutMetricDataRaised(publisher, who, e)
  /\ UNCHANGED <<prodVars, handlerVars, analyzerVars, controllerVars, trafficVars, restVars>>

\* _publish_single_batch (569-570, 584-585): the sleep is over, next attempt
PublishBackoffEnds(who) ==
  /\ publisher.flush[who].pc = "backoff"
  /\ publisher' = PutMetricData([publisher EXCEPT !.flush[who].attempt = @ + 1], who)
  /\ UNCHANGED <<prodVars, handlerVars, analyzerVars, controllerVars, trafficVars, restVars>>

\* publishing_task.cancel() (299): CancelledError is raised at the await the
\* task is at.  At the sleep of the loop it is caught and the loop left
\* (502-503); inside flush_metrics no except clause of _publish_single_batch
\* catches it (CancelledError is no Exception), the chunks not yet published
\* are dropped with the frame, and the loop is left as well; in the sleep of
\* the except clause it ends the task.
CancelPublishingTask(q) ==
  IF q.flush["loop"].pc \in {"none", "done"} THEN q
  ELSE [q EXCEPT !.flush["loop"].pc = "cancelled",
                 !.flush["loop"].error =
                    IF q.flush["loop"].pc \in {"put", "backoff"} THEN "CancelledError" ELSE @]

\* stop_publishing (295-304) up to 'await self.publishing_task'
StopPublishing ==
  /\ publisher.op = "none"
  /\ publisher.flush["caller"].pc \in {"idle", "returned", "raised"}
  /\ publisher.flush["loop"].pc # "none"
  /\ publisher' =
       [CancelPublishingTask(publisher) EXCEPT
          !.is_running = FALSE,
          !.op = "stop",
          !.before_stop = 1..(publisher.next_point - 1),
          !.flush["caller"] = [NoFlush EXCEPT !.pc = "await_task"]]
  /\ UNCHANGED <<prodVars, handlerVars, analyzerVars, controllerVars, trafficVars, restVars>>

\* the cancelled periodic task ends
PublishingTaskEnds ==
  /\ publisher.flush["loop"].pc = "cancelled"
  /\ publisher' = [publisher EXCEPT !.flush["loop"].pc = "done"]
  /\ UNCHANGED <<prodVars, handlerVars, analyzerVars, controllerVars, trafficVars, restVars>>

\* stop_publishing (300-308): the periodic task has ended, the final flush
StopPublishingFlushes ==
  /\ publisher.op = "stop"
  /\ publisher.flush["caller"].pc = "await_task"
  /\ publisher.flush["loop"].pc = "done"
  /\ publisher' = FlushMetrics(publisher, "caller")
  /\ UNCHANGED <<prodVars, handlerVars, analyzerVars, controllerVars, trafficVars, restVars>>

(***************************************************************************)
(* The demo controller (step_functions_controller.py): one invocation of   *)
(* lambda_handler.  The operations are straight-line code around calls of  *)
(* the fleet service (ECS); a step of the model is the code up to the next *)
(* call.  A call returns, raises ClientError, or raises something else     *)
(* (a BotoCoreError, a KeyError or IndexError on the response).  The       *)
(* metrics calls of _publish_demo_metrics swallow every exception          *)
(* (377-397) and do not appear.                                            *)
(***************************************************************************)
Operations ==
  {"initialize_demo", "start_phase", "cleanup_demo", "handle_failure", "get_status",
   "restart_demo"}

\* str(n), the text of an integer in an environment entry
str(n) == <<"str", n>>

\* container environments of the current task definition
Environments ==
  { <<>>,
    << [name |-> "STREAM_NAME", value |-> "s"] >>,
    << [name |-> "DEMO_PHASE", value |-> str(9)], [name |-> "STREAM_NAME", value |-> "s"],
       [name |-> "TARGET_TPS", value |-> str(9)], [name |-> "AWS_REGION", value |-> "r"] >>,
    << [name |-> "TARGET_TPS", value |-> str(9)], [name |-> "TARGET_TPS", value |-> str(8)],
       [name |-> "AWS_REGION", value |-> "r"], [name |-> "DEMO_PHASE", value |-> str(9)] >> }

NoResult ==
  [kind |-> "none", status |-> "none", current_phase |-> 0, deployment_id |-> 0,
   success |-> FALSE, task_count |-> 0, per_task_tps |-> 0, error |-> "none",
   errorType |-> "none", operation |-> "none", event |-> "none"]

NoInvocation ==
  [pc |-> "idle", operation |-> "none", event |-> "none", phase_number |-> 0,
   phases |-> <<>>, error |-> "none", has_start_time |-> FALSE, execution_arn |-> FALSE,
   per_task_capacity |-> 0, task_count |-> 0,
   fleet |-> [environment |-> <<>>, desired_count |-> 0, registered |-> <<>>,
              serving |-> "current", deployment |-> 0, failed |-> "none"],
   result |-> NoResult]

ControllerIdle == controller = NoInvocation

\* math.ceil(a / b) for a >= 0 and b > 0
ceil_div(a, b) == (a + b - 1) \div b

\* start_phase (107): task_count = max(1, math.ceil(target_tps / per_task_capacity))
task_count_of(target_tps, per_task_capacity) ==
  IF ceil_div(target_tps, per_task_capacity) > 1
  THEN ceil_div(target_tps, per_task_capacity) ELSE 1

\* start_phase (137): "per_task_tps": total_target_tps // task_count
reported_per_task_tps(target_tps, task_count) == target_tps \div task_count

\* _create_updated_task_definition (323): per_task_tps = max(1, target_tps // task_count)
per_task_tps(target_tps, task_count) ==
  IF target_tps \div task_count > 1 THEN target_tps \div task_count ELSE 1

\* _create_updated_task_definition (330-346): the environment of one container
updated_environment(environment, phase_number, target_tps, task_count) ==
  SelectSeq(environment, LAMBDA env : env.name \notin {"DEMO_PHASE", "TARGET_TPS"})
    \o << [name |-> "DEMO_PHASE", value |-> str(phase_number)],
          [name |-> "TARGET_TPS", value |-> str(per_task_tps(target_tps, task_count))] >>

\* _create_updated_task_definition (326-349): every container is rewritten
create_updated_task_definition(containers, phase_number, target_tps, task_count) ==
  [k \in DOMAIN containers |->
     updated_environment(containers[k], phase_number, target_tps, task_count)]

\* the handler returns this result (474)
Return(c, result) ==
  [c EXCEPT !.pc = "done", !.result = [result EXCEPT !.kind = "result"]]

\* mutant: the handler lets the exception through
Catch_reraise(c, errorType) ==
  [c EXCEPT !.pc = "done",
            !.result = [NoResult EXCEPT !.kind = "raised", !.errorType = errorType]]

\* lambda_handler (476-483): except Exception: the structured error payload
Catch(c, errorType) ==
  [c EXCEPT !.pc = "done",
            !.result = [NoResult EXCEPT !.kind = "error_payload", !.errorType = errorType,
                                        !.operation = c.operation, !.event = c.event]]

\* start_phase (112-145), after _redeploy_ecs_service_with_phase returned
\* deployment_result with this success flag and deployment id
PhaseStarted(c, success, deployment_id) ==
  Return(c, [NoResult EXCEPT
               !.status = "phase_started",
               !.current_phase = c.phase_number,
               !.success = success,
               !.deployment_id = deployment_id,
               !.task_count = c.task_count,
               !.per_task_tps =
                  reported_per_task_tps(c.phases[c.phase_number], c.task_count)])

\* cleanup_demo (151-177), after _cleanup_ecs_service returned
CleanupCompleted(c, success) ==
  IF ~c.has_start_time THEN Catch(c, "KeyError")
  ELSE Return(c, [NoResult EXCEPT !.status = "cleanup_completed", !.success = success])

\* handle_failure (185-204), after _cleanup_ecs_service returned
FailureHandled(c, success) ==
  Return(c, [NoResult EXCEPT !.status = "failure_handled", !.success = success,
                             !.error = c.error])

\* handle_failure (206-214): except Exception as cleanup_error
CleanupFailed(c) ==
  Return(c, [NoResult EXCEPT !.status = "cleanup_failed", !.error = c.error])

\* lambda_handler (417-472) up to the first call of the fleet service
Dispatch(c) ==
  CASE c.operation = "initialize_demo" ->
         \* initialize_demo (72-76): the task count of each phase is logged
         IF c.phases # <<>> /\ c.per_task_capacity = 0
         THEN Catch(c, "ZeroDivisionError")
         ELSE Return(c, [NoResult EXCEPT !.status = "initialized"])
    [] c.operation = "start_phase" ->
         IF c.phase_number = 0 THEN Catch(c, "ValueError")
         ELSE IF c.phase_number \notin DOMAIN c.phases THEN Catch(c, "ValueError")
         ELSE IF c.per_task_capacity = 0 THEN Catch(c, "ZeroDivisionError")
         ELSE [c EXCEPT !.pc = "describe_services",
                        !.task_count = task_count_of(c.phases[c.phase_number],
                                                     c.per_task_capacity)]
    [] c.operation \in {"cleanup_demo", "handle_failure"} ->
         [c EXCEPT !.pc = "scale_to_zero"]
    [] c.operation = "get_status" ->
         IF c.execution_arn THEN [c EXCEPT !.pc = "describe_execution"]
         ELSE Return(c, [NoResult EXCEPT !.status = "no_execution_specified"])
    [] OTHER ->
         [c EXCEPT !.pc = "done",
                   !.result = [NoResult EXCEPT !.kind = "unknown_operation",
                                               !.error = c.operation]]

\* the call the invocation waits for has returned
CallReturned(c) ==
  CASE c.pc = "describe_services" -> [c EXCEPT !.pc = "describe_task_definition"]
    [] c.pc = "describe_task_definition" ->
         \* _redeploy_ecs_service_with_phase (263-269)
         [c EXCEPT !.pc = "register_task_definition"]
    [] c.pc = "register_task_definition" ->
         [c EXCEPT !.pc = "update_service",
                   !.fleet.registered =
                      create_updated_task_definition(c.fleet.environment, c.phase_number,
                                                     c.phases[c.phase_number], c.task_count)]
    [] c.pc = "update_service" ->
         \* _redeploy_ecs_service_with_phase (275-294)
         LET d == [c EXCEPT !.fleet.serving = "registered",
                            !.fleet.desired_count = c.task_count,
                            !.fleet.deployment = @ + 1]
         IN  PhaseStarted(d, TRUE, d.fleet.deployment)
    [] c.pc = "scale_to_zero" ->
         \* _cleanup_ecs_service (356-367)
         LET d == [c EXCEPT !.fleet.desired_count = 0]
         IN  IF c.operation = "cleanup_demo" THEN CleanupCompleted(d, TRUE)
             ELSE FailureHandled(d, TRUE)
    [] c.pc = "describe_execution" ->
         Return(c, [NoResult EXCEPT !.status = "RUNNING"])
    [] OTHER -> c

\* _redeploy_ecs_service_with_phase (296-303): except ClientError: the
\* result {"success": False, ...} goes back to start_phase
RedeployFailed(c) == PhaseStarted(c, FALSE, 0)

\* the call the invocation waits for has raised ClientError
CallRaisedClientError(c0) ==
  LET c == [c0 EXCEPT !.fleet.failed = c0.pc]
  IN  CASE c.pc \in {"describe_services", "describe_task_definition",
                     "register_task_definition", "update_service"} -> RedeployFailed(c)
        [] c.pc = "scale_to_zero" ->
             \* _cleanup_ecs_service (369-375): {"success": False, ...}
             IF c.operation = "cleanup_demo" THEN CleanupCompleted(c, FALSE)
             ELSE FailureHandled(c, FALSE)
        [] c.pc = "describe_execution" ->
             \* get_demo_status (238-243)
             Return(c, [NoResult EXCEPT !.status = "error"])
        [] OTHER -> c

\* the call the invocation waits for has raised another exception
CallRaisedOther(c0) ==
  LET c == [c0 EXCEPT !.fleet.failed = c0.pc]
  IN  CASE c.pc = "scale_to_zero" /\ c.operation = "handle_failure" -> CleanupFailed(c)
        [] c.pc = "describe_execution" -> Return(c, [NoResult EXCEPT !.status = "error"])
        [] OTHER -> Catch(c, "Exception")

\* lambda_handler is called with an event
Invoke ==
  /\ controller.pc = "invoked"
  /\ controller' = Dispatch(controller)
  /\ UNCHANGED <<prodVars, handlerVars, analyzerVars, publisherVars, trafficVars, restVars>>

FleetCallReturns ==
  /\ controller.pc \notin {"idle", "invoked", "done"}
  /\ controller' = CallReturned(controller)
  /\ UNCHANGED <<prodVars, handlerVars, analyzerVars, publisherVars, trafficVars, restVars>>

FleetCallRaisesClientError ==
  /\ controller.pc \notin {"idle", "invoked", "done"}
  /\ controller' = CallRaisedClientError(controller)
  /\ UNCHANGED <<prodVars, handlerVars, analyzerVars, publisherVars, trafficVars, restVars>>

FleetCallRaisesOther ==
  /\ controller.pc \notin {"idle", "invoked", "done"}
  /\ controller' = CallRaisedOther(controller)
  /\ UNCHANGED <<prodVars, handlerVars, analyzerVars, publisherVars, trafficVars, restVars>>

(***************************************************************************)
(* TrafficPatternController (post_generator.py 280-407): the internal      *)
(* phase controller.  Times are whole seconds; the clock is what           *)
(* datetime.utcnow() returns and never goes back.                          *)
(***************************************************************************)
Accessors ==
  {"get_current_phase", "get_target_tps", "get_phase_progress", "get_remaining_time",
   "calculate_messages_to_generate", "get_post_type_distribution"}

\* _create_phases (295): default_tps_values
default_tps_values == <<100, 10000, 50000, 100>>

NoTraffic ==
  [durations |-> <<>>, clock |-> 0, demo_start_time |-> NoTime, current_phase_index |-> 0,
   accessor |-> "none", outcome |-> "none", value |-> <<>>, reported |-> 0]

TrafficIdle == traffic = NoTraffic

\* the sum of the durations of the first n phases
RECURSIVE cumulative_time(_, _)
cumulative_time(durations, n) ==
  IF n = 0 THEN 0 ELSE cumulative_time(durations, n - 1) + durations[n]

\* (current_time - self.demo_start_time).total_seconds()
elapsed_seconds(t) == t.clock - t.demo_start_time

\* mutant: past the last phase the demo starts over with the first
phase_at_wraps(durations, elapsed) ==
  IF \E i \in 1..Len(durations) : elapsed <= cumulative_time(durations, i)
  THEN CHOOSE i \in 1..Len(durations) :
         /\ elapsed <= cumulative_time(durations, i)
         /\ \A j \in 1..(i - 1) : ~(elapsed <= cumulative_time(durations, j))
  ELSE 1

\* get_current_phase (330-339): the first phase whose cumulative end is not
\* before the elapsed time, else the last phase
phase_at(durations, elapsed) ==
  IF \E i \in 1..Len(durations) : elapsed <= cumulative_time(durations, i)
  THEN CHOOSE i \in 1..Len(durations) :
         /\ elapsed <= cumulative_time(durations, i)
         /\ \A j \in 1..(i - 1) : ~(elapsed <= cumulative_time(durations, j))
  ELSE Len(durations)

\* elapsed time since phase.start_time (start_demo 316-319)
elapsed_in_phase(t, phase) ==
  elapsed_seconds(t) - cumulative_time(t.durations, phase - 1)

\* the accessor raised RuntimeError("Demo has not been started")
NotStarted(t, a) ==
  [t EXCEPT !.accessor = a, !.outcome = "RuntimeError", !.value = <<"Demo has not been started">>]

\* the accessor returned this value
Returned(t, a, value) ==
  [t EXCEPT !.accessor = a, !.outcome = "returned", !.value = value]

\* get_current_phase has run (334, 338) and reported this phase
WithPhase(t, phase) ==
  [t EXCEPT !.current_phase_index = phase - 1, !.reported = phase]

\* mutant: every accessor raises before the demo has started
CallBeforeStart_all_raise(t, a) == NotStarted(t, a)

\* the accessors while demo_start_time is None (323-324, 343, 348-349,
\* 377-378, 391, 396-398)
CallBeforeStart(t, a) ==
  CASE a \in {"get_current_phase", "get_target_tps", "calculate_messages_to_generate"} ->
         NotStarted(t, a)
    [] a = "get_phase_progress" -> Returned(t, a, <<0, 1>>)
    [] a = "get_remaining_time" -> Returned(t, a, <<0>>)
    [] OTHER -> Returned(t, a, <<7, 2, 1>>)

\* the accessors once the demo has started (321-407); a ratio is written
\* <<numerator, denominator>>, the distribution in tenths
CallAfterStart(t0, a) ==
  LET phase == phase_at(t0.durations, elapsed_seconds(t0))
      t == WithPhase(t0, phase)
      e == elapsed_in_phase(t, phase)
      d == t.durations[phase]
  IN  CASE a = "get_current_phase" -> Returned(t, a, <<phase>>)
        [] a = "get_target_tps" -> Returned(t, a, <<default_tps_values[phase]>>)
        [] a = "calculate_messages_to_generate" -> Returned(t, a, <<default_tps_values[phase]>>)
        [] a = "get_phase_progress" ->
             Returned(t, a, IF e >= d THEN <<1, 1>> ELSE <<e, d>>)
        [] a = "get_remaining_time" -> Returned(t, a, <<IF d - e > 0 THEN d - e ELSE 0>>)
        [] OTHER -> Returned(t, a, IF phase <= 2 THEN <<7, 2, 1>> ELSE <<4, 4, 2>>)

\* start_demo (310-319)
StartDemo ==
  /\ traffic.durations # <<>>
  /\ traffic.demo_start_time = NoTime
  /\ traffic' = [traffic EXCEPT !.demo_start_time = traffic.clock,
                                !.current_phase_index = 0,
                                !.accessor = "start_demo", !.outcome = "returned",
                                !.value = <<>>]
  /\ UNCHANGED <<prodVars, handlerVars, analyzerVars, publisherVars, controllerVars, restVars>>

\* one of the accessors is called
CallAccessor(a) ==
  /\ traffic.durations # <<>>
  /\ traffic' = IF traffic.demo_start_time = NoTime
                THEN CallBeforeStart(traffic, a)
                ELSE CallAfterStart(traffic, a)
  /\ UNCHANGED <<prodVars, handlerVars, analyzerVars, publisherVars, controllerVars, restVars>>

\* a second passes; accessor, outcome and value describe the call just made
ClockTick ==
  /\ traffic.durations # <<>>
  /\ traffic.clock < MaxClock
  /\ traffic' = [traffic EXCEPT !.clock = @ + 1, !.accessor = "none",
                                !.outcome = "none", !.value = <<>>]
  /\ UNCHANGED <<prodVars, handlerVars, analyzerVars, publisherVars, controllerVars, restVars>>

(***************************************************************************)
(* The main loop of the generator following the phases (main.py            *)
(* _run_demo_loop 139-172).  The traffic controller is chosen by           *)
(* CONTROLLER_MODE (57-73): the internal controller reports a phase of     *)
(* 1..4; the environment controller reports int(DEMO_PHASE), whatever the  *)
(* deployment wrote; the polling controller reports the CurrentPhase       *)
(* metric and calls the demo complete past phase 4.                        *)
(***************************************************************************)
ControllerModes == {"internal", "step_functions", "step_functions_polling"}

\* the phase numbers the controller of a mode can report
ReportedPhases(mode) ==
  CASE mode = "internal" -> 1..4
    [] mode = "step_functions" -> 0..MaxReportedPhase
    [] OTHER -> 1..MaxReportedPhase

NoGenerator ==
  [pc |-> "idle", mode |-> "none", current_phase |-> 0, current_demo_phase |-> 0,
   reported |-> 0, differed |-> FALSE, error |-> "none", iterations |-> 0]

\* DemoDataGenerator.__init__ (79) and KinesisProducer.__init__ (230)
Constructed(mode) ==
  [NoGenerator EXCEPT !.pc = "loop", !.mode = mode, !.current_phase = 1,
                      !.current_demo_phase = 1]

\* KinesisProducer.set_demo_phase (492-497)
set_demo_phase(g, phase) ==
  IF ~(1 <= phase /\ phase <= 4) THEN [g EXCEPT !.error = "ValueError"]
  ELSE [g EXCEPT !.current_demo_phase = phase]

\* _run_demo_loop (150-158): the phase is compared with the tracked phase
UpdatePhase(g0, phase) ==
  LET g == [g0 EXCEPT !.reported = phase, !.differed = (phase # g0.current_phase),
                      !.error = "none", !.iterations = @ + 1]
  IN  IF phase # g.current_phase
      THEN set_demo_phase([g EXCEPT !.current_phase = phase], phase)
      ELSE g

\* _run_demo_loop (143-172): one iteration with the controller reporting
\* this phase; generating and sending raises or not (161-164); an exception
\* is logged and the loop sleeps a second (169-172)
Iteration(g, phase, complete, sending_raises) ==
  IF complete THEN [g EXCEPT !.pc = "done", !.differed = FALSE, !.error = "none"]
  ELSE LET u == UpdatePhase(g, phase)
       IN  IF u.error = "none" /\ sending_raises THEN [u EXCEPT !.error = "Exception"]
           ELSE u

\* is_demo_complete of the three controllers (post_generator.py 371-373,
\* env_phase_controller.py 133-137, stepfunctions_phase_controller.py 279-283)
CanBeComplete(mode, phase, complete) ==
  CASE mode = "internal" -> complete => phase = 4
    [] mode = "step_functions" -> ~complete
    [] OTHER -> phase > 4 => complete

DemoLoopIteration ==
  /\ generator.pc = "loop"
  /\ generator.iterations < MaxIterations
  /\ \E phase \in ReportedPhases(generator.mode) :
     \E complete \in BOOLEAN :
     \E sending_raises \in BOOLEAN :
       /\ CanBeComplete(generator.mode, phase, complete)
       /\ generator.mode = "internal" => phase >= generator.reported
       /\ generator' = Iteration(generator, phase, complete, sending_raises)
  /\ UNCHANGED <<prodVars, handlerVars, analyzerVars, publisherVars, controllerVars,
                 trafficVars, poller, logs, exp_backoff, health>>

\* the loop is cancelled or shutdown is requested (143, 166-168)
DemoLoopStops ==
  /\ generator.pc = "loop"
  /\ generator' = [generator EXCEPT !.pc = "done", !.differed = FALSE, !.error = "none"]
  /\ UNCHANGED <<prodVars, handlerVars, analyzerVars, publisherVars, controllerVars,
                 trafficVars, poller, logs, exp_backoff, health>>

GeneratorIdle == generator = NoGenerator

(***************************************************************************)
(* The polling phase controller (stepfunctions_phase_controller.py).  Its  *)
(* accessors are synchronous: a step is a whole call, with the answer of   *)
(* get_metric_statistics.  CloudWatch holds at most one datapoint of each  *)
(* metric; get_metric_statistics returns the datapoints of the window      *)
(* [now - max_age_minutes, now] or raises.  Times are seconds; None is     *)
(* <<>> and a value v is <<v>>.                                            *)
(***************************************************************************)
Metrics == {"CurrentPhase", "TargetTPS"}

\* StepFunctionsPhaseController(cache_ttl_seconds=10)
cache_ttl_seconds == 10

NoDatapoint == [Timestamp |-> NoTime, Maximum |-> 0]

NoPoller ==
  [clock |-> 0,
   datapoints |-> [m \in Metrics |-> NoDatapoint],
   cache |-> [m \in Metrics |-> <<>>],
   cache_timestamps |-> [m \in Metrics |-> NoTime],
   last_query |-> [m \in Metrics |-> NoTime],
   gap |-> [m \in Metrics |-> NoTime],
   accessor |-> "none", value |-> <<>>]

\* _is_cache_valid (207-216)
is_cache_valid(p, cache_key) ==
  /\ p.cache_timestamps[cache_key] # NoTime
  /\ p.clock - p.cache_timestamps[cache_key] < cache_ttl_seconds

\* the datapoints get_metric_statistics returns for StartTime = now -
\* max_age_minutes and EndTime = now (166-182)
InWindow(p, metric_name, max_age_minutes) ==
  /\ p.datapoints[metric_name].Timestamp # NoTime
  /\ p.datapoints[metric_name].Timestamp >= p.clock - 60 * max_age_minutes
  /\ p.datapoints[metric_name].Timestamp <= p.clock

\* get_metric_statistics is called for this metric: the time of the call
\* and the time since the call before it are remembered
Queried(p, metric_name) ==
  [p EXCEPT !.last_query[metric_name] = p.clock,
            !.gap[metric_name] =
               IF p.last_query[metric_name] = NoTime THEN NoTime
               ELSE p.clock - p.last_query[metric_name]]

\* _get_latest_metric (147-205): the state after the call and the value
\* returned
get_latest_metric(p, metric_name, max_age_minutes, raises) ==
  IF is_cache_valid(p, metric_name) THEN <<p, p.cache[metric_name]>>
  ELSE LET q == Queried(p, metric_name)
       IN  IF raises \/ ~InWindow(p, metric_name, max_age_minutes) THEN <<q, <<>>>>
           ELSE <<[q EXCEPT !.cache[metric_name] = <<p.datapoints[metric_name].Maximum>>,
                            !.cache_timestamps[metric_name] = p.clock],
                  <<p.datapoints[metric_name].Maximum>> >>

\* if metric: return int(metric) else: return the default (52-56, 65-69)
int_or_default(metric, default) ==
  IF metric = <<>> \/ metric = <<0>> THEN <<default>> ELSE metric

Called(p, accessor, value) == [p EXCEPT !.accessor = accessor, !.value = value]

\* get_current_phase_number (48-59)
get_current_phase_number(p, raises) ==
  LET r == get_latest_metric(p, "CurrentPhase", 10, raises)
  IN  Called(r[1], "get_current_phase_number", int_or_default(r[2], 1))

\* get_target_tps (61-72)
poller_get_target_tps(p, raises) ==
  LET r == get_latest_metric(p, "TargetTPS", 10, raises)
  IN  Called(r[1], "get_target_tps", int_or_default(r[2], 100))

\* is_demo_running (86-94)
is_demo_running(p, raises) ==
  LET r == get_latest_metric(p, "CurrentPhase", 5, raises)
  IN  Called(r[1], "is_demo_running", <<r[2] # <<>>>>)

GetCurrentPhaseNumber ==
  /\ poller.clock > 0
  /\ \E raises \in BOOLEAN : poller' = get_current_phase_number(poller, raises)
  /\ UNCHANGED <<prodVars, handlerVars, analyzerVars, publisherVars, controllerVars,
                 trafficVars, generator, logs, exp_backoff, health>>

GetTargetTps ==
  /\ poller.clock > 0
  /\ \E raises \in BOOLEAN : poller' = poller_get_target_tps(poller, raises)
  /\ UNCHANGED <<prodVars, handlerVars, analyzerVars, publisherVars, controllerVars,
                 trafficVars, generator, logs, exp_backoff, health>>

IsDemoRunning ==
  /\ poller.clock > 0
  /\ \E raises \in BOOLEAN : poller' = is_demo_running(poller, raises)
  /\ UNCHANGED <<prodVars, handlerVars, analyzerVars, publisherVars, controllerVars,
                 trafficVars, generator, logs, exp_backoff, health>>

\* time passes: a few seconds between calls made in a burst, or a long wait
PollerWaits ==
  /\ poller.clock > 0
  /\ \E seconds \in {ShortWait, LongWait} :
       /\ seconds = ShortWait => (poller.clock - FirstPoll) % LongWait < BurstSeconds
       /\ poller.clock + seconds <= FirstPoll + MaxPollSeconds
       /\ poller' = [poller EXCEPT !.clock = @ + seconds, !.accessor = "none",
                                   !.value = <<>>]
  /\ UNCHANGED <<prodVars, handlerVars, analyzerVars, publisherVars, controllerVars,
                 trafficVars, generator, logs, exp_backoff, health>>

PollerIdle == poller = NoPoller

(***************************************************************************)
(* The log publisher of the consumer (cloudwatch_publisher.py).  The code  *)
(* is synchronous; a step of the model is the code up to the next call of  *)
(* the logs service and the answer of that call.  Log entries are numbered *)
(* in the order they are created; written is what the service accepted.    *)
(***************************************************************************)
LogStreams == {"product-sentiment", "viral-events"}

\* the answers of put_log_events (324-373); the message of an
\* InvalidSequenceTokenException holds the expected token or not
PutLogEventsOutcomes ==
  {"ok", "ResourceNotFoundException", "InvalidSequenceTokenException",
   "InvalidSequenceTokenException without token", "DataAlreadyAcceptedException",
   "ThrottlingException", "Exception"}

\* the answers of create_log_stream (387-403)
CreateLogStreamOutcomes == {"ok", "ResourceAlreadyExistsException", "Exception"}

\* MAX_RETRIES = 3 (56)
MAX_RETRIES == 3

NoLogs ==
  [pc |-> "idle", op |-> "none", stream_name |-> "none", pending |-> 0,
   to_flush |-> {}, attempt |-> 0, batch |-> <<>>,
   buffers |-> [s \in LogStreams |-> <<>>],
   sequence_tokens |-> [s \in LogStreams |-> "None"],
   added |-> [s \in LogStreams |-> <<>>],
   written |-> [s \in LogStreams |-> <<>>],
   last_write |-> [stream_name |-> "none", batch |-> <<>>, success |-> TRUE],
   next_entry |-> 1]

LogsIdle == logs = NoLogs

\* _flush_buffer returns (262, 291 and the end of the loop at 266): the
\* caller goes on
FlushBufferReturns(l) ==
  [l EXCEPT !.pc = IF l.op = "flush_all" THEN "flush_all" ELSE "adding",
            !.batch = <<>>, !.attempt = 0]

\* _flush_buffer (260-282): the next sub-batch is handed to
\* _write_log_events_with_retry, or the buffer is empty
NextSubBatch(l) ==
  LET buffer == l.buffers[l.stream_name]
  IN  IF buffer = <<>> THEN FlushBufferReturns(l)
      ELSE [l EXCEPT !.pc = "put_log_events", !.attempt = 0,
                     !.batch = SubSeq(buffer, 1, Min(Len(buffer), MAX_BATCH_SIZE))]

\* mutant: the sub-batch is removed although its write failed
WriteReturned_always_removes(l, success) ==
  LET buffer == l.buffers[l.stream_name]
      rest == SubSeq(buffer, Min(Len(buffer), MAX_BATCH_SIZE) + 1, Len(buffer))
  IN  IF success
      THEN NextSubBatch([l EXCEPT !.buffers[l.stream_name] = rest,
                               !.written[l.stream_name] = @ \o l.batch,
                               !.last_write = [stream_name |-> l.stream_name, batch |-> l.batch,
                                                success |-> TRUE]])
      ELSE FlushBufferReturns(
             [l EXCEPT !.buffers[l.stream_name] = rest,
                       !.last_write = [stream_name |-> l.stream_name, batch |-> l.batch,
                                       success |-> FALSE]])

\* _flush_buffer (282-291), after _write_log_events_with_retry returned
WriteReturned(l, success) ==
  LET buffer == l.buffers[l.stream_name]
      rest == SubSeq(buffer, Min(Len(buffer), MAX_BATCH_SIZE) + 1, Len(buffer))
  IN  IF success
      THEN NextSubBatch([l EXCEPT !.buffers[l.stream_name] = rest,
                               !.written[l.stream_name] = @ \o l.batch,
                               !.last_write = [stream_name |-> l.stream_name, batch |-> l.batch,
                                                success |-> TRUE]])
      ELSE FlushBufferReturns(
             [l EXCEPT !.last_write = [stream_name |-> l.stream_name, batch |-> l.batch,
                                       success |-> FALSE]])

\* `continue` in _write_log_events_with_retry (310, 375)
NextAttempt(l) ==
  IF l.attempt + 1 < MAX_RETRIES
  THEN [l EXCEPT !.pc = "put_log_events", !.attempt = @ + 1]
  ELSE WriteReturned(l, FALSE)

\* _write_log_events_with_retry (324-373): put_log_events has answered
PutLogEventsAnswered(l, answer) ==
  CASE answer = "ok" ->
         WriteReturned([l EXCEPT !.sequence_tokens[l.stream_name] = "next"], TRUE)
    [] answer = "ResourceNotFoundException" -> [l EXCEPT !.pc = "create_log_stream"]
    [] answer = "InvalidSequenceTokenException" ->
         NextAttempt([l EXCEPT !.sequence_tokens[l.stream_name] = "expected"])
    [] answer = "InvalidSequenceTokenException without token" -> WriteReturned(l, FALSE)
    [] answer = "DataAlreadyAcceptedException" ->
         WriteReturned([l EXCEPT !.sequence_tokens[l.stream_name] = "expected"], TRUE)
    [] answer = "ThrottlingException" ->
         IF l.attempt < MAX_RETRIES - 1 THEN NextAttempt(l) ELSE WriteReturned(l, FALSE)
    [] OTHER -> WriteReturned(l, FALSE)

\* _create_log_stream (387-403) and the branch that called it (333-337)
CreateLogStreamAnswered(l, answer) ==
  IF answer \in {"ok", "ResourceAlreadyExistsException"}
  THEN NextAttempt([l EXCEPT !.sequence_tokens[l.stream_name] = "None"])
  ELSE WriteReturned(l, FALSE)

\* _add_to_buffer (247-251) with the next log entry
add_to_buffer(l) ==
  LET a == [l EXCEPT !.buffers[l.stream_name] = Append(@, l.next_entry),
                     !.added[l.stream_name] = Append(@, l.next_entry),
                     !.next_entry = @ + 1, !.pending = @ - 1]
  IN  IF Len(a.buffers[a.stream_name]) >= MAX_BUFFER_SIZE THEN NextSubBatch(a) ELSE a

\* a publish_* method is called with n insights (99-196)
Publish(stream_name, n) ==
  /\ logs.pc = "idle"
  /\ logs.next_entry + n - 1 <= MaxEntries
  /\ logs' = [logs EXCEPT !.pc = "adding", !.op = "publish", !.stream_name = stream_name,
                          !.pending = n]
  /\ UNCHANGED <<prodVars, handlerVars, analyzerVars, publisherVars, controllerVars,
                 trafficVars, generator, poller, exp_backoff, health>>

\* the loop of the publish_* method: the next insight, or the method returns
PublishNext ==
  /\ logs.pc = "adding"
  /\ logs' = IF logs.pending = 0 THEN [logs EXCEPT !.pc = "idle", !.op = "none"]
             ELSE add_to_buffer(logs)
  /\ UNCHANGED <<prodVars, handlerVars, analyzerVars, publisherVars, controllerVars,
                 trafficVars, generator, poller, exp_backoff, health>>

\* flush_all (198-206) is called
FlushAll ==
  /\ logs.pc = "idle"
  /\ logs' = [logs EXCEPT !.pc = "flush_all", !.op = "flush_all", !.to_flush = LogStreams]
  /\ UNCHANGED <<prodVars, handlerVars, analyzerVars, publisherVars, controllerVars,
                 trafficVars, generator, poller, exp_backoff, health>>

\* the loop of flush_all: the next stream, or flush_all returns
FlushAllNext ==
  /\ logs.pc = "flush_all"
  /\ logs' = IF logs.to_flush = {} THEN [logs EXCEPT !.pc = "idle", !.op = "none"]
             ELSE LET s == CHOOSE s \in logs.to_flush :
                             \A t \in logs.to_flush : s = "product-sentiment" \/ t = s
                  IN  NextSubBatch([logs EXCEPT !.stream_name = s, !.to_flush = @ \ {s}])
  /\ UNCHANGED <<prodVars, handlerVars, analyzerVars, publisherVars, controllerVars,
                 trafficVars, generator, poller, exp_backoff, health>>

PutLogEventsAnswers(answer) ==
  /\ logs.pc = "put_log_events"
  /\ logs' = PutLogEventsAnswered(logs, answer)
  /\ UNCHANGED <<prodVars, handlerVars, analyzerVars, publisherVars, controllerVars,
                 trafficVars, generator, poller, exp_backoff, health>>

CreateLogStreamAnswers(answer) ==
  /\ logs.pc = "create_log_stream"
  /\ logs' = CreateLogStreamAnswered(logs, answer)
  /\ UNCHANGED <<prodVars, handlerVars, analyzerVars, publisherVars, controllerVars,
                 trafficVars, generator, poller, exp_backoff, health>>

(***************************************************************************)
(* An ExponentialBackoff on its own (kinesis_producer.py 107-144), built   *)
(* with any parameters.  Delays are whole numbers of a small unit; delays  *)
(* holds the delays get_delay has returned since the last reset.           *)
(***************************************************************************)
NoBackoff ==
  [base_delay |-> 0, max_delay |-> 0, max_retries |-> 0, jitter |-> FALSE,
   attempt |-> 0, delays |-> <<>>]

BackoffIdle == exp_backoff = NoBackoff

\* __init__ (110-116)
ExponentialBackoff(base_delay_, max_delay, max_retries_, jitter) ==
  [NoBackoff EXCEPT !.base_delay = base_delay_, !.max_delay = max_delay,
                    !.max_retries = max_retries_, !.jitter = jitter]

\* reset (118-120)
backoff_reset(b) == [b EXCEPT !.attempt = 0, !.delays = <<>>]

\* should_retry (122-124)
backoff_should_retry(b) == b.attempt < b.max_retries

\* the delays get_delay can return for a delay before jitter (133-135):
\* delay * (0.5 + random.random() * 0.5) lies in [delay / 2, delay]
Jittered(b, delay) ==
  IF b.jitter THEN ((delay + 1) \div 2)..delay ELSE {delay}

\* mutant: the delay is not limited by max_delay
delay_before_jitter_unlimited(b) == b.base_delay * 2 ^ b.attempt

\* get_delay (131): min(self.base_delay * (2 ** self.attempt), self.max_delay)
delay_before_jitter(b) == Min(b.base_delay * 2 ^ b.attempt, b.max_delay)

\* get_delay (126-138) returning this delay, one of
\* Jittered(b, delay_before_jitter(b))
backoff_get_delay(b, delay) ==
  IF b.attempt >= b.max_retries THEN [b EXCEPT !.delays = Append(@, 0)]
  ELSE [b EXCEPT !.attempt = @ + 1, !.delays = Append(@, delay)]

GetDelay ==
  /\ exp_backoff.base_delay > 0
  /\ Len(exp_backoff.delays) < MaxDelays
  /\ \E delay \in Jittered(exp_backoff, delay_before_jitter(exp_backoff)) :
       exp_backoff' = backoff_get_delay(exp_backoff, delay)
  /\ UNCHANGED <<prodVars, handlerVars, analyzerVars, publisherVars, controllerVars,
                 trafficVars, generator, poller, logs, health>>

Reset ==
  /\ exp_backoff.base_delay > 0
  /\ exp_backoff.delays # <<>>
  /\ exp_backoff' = backoff_reset(exp_backoff)
  /\ UNCHANGED <<prodVars, handlerVars, analyzerVars, publisherVars, controllerVars,
                 trafficVars, generator, poller, logs, health>>

(***************************************************************************)
(* The health checker (health_check.py).  A check returns a status or      *)
(* raises: check_python_environment catches ImportError only (40), so an   *)
(* import that fails in another way leaves it with an exception;           *)
(* check_aws_credentials names botocore's exception classes in its except  *)
(* clause (76), which raises when the import of boto3 itself failed.       *)
(***************************************************************************)
CheckNames ==
  {"python_environment", "aws_credentials", "environment_variables", "shared_modules"}

\* what each check can do (27-183)
CheckOutcomes(check_name) ==
  CASE check_name = "python_environment" -> {"healthy", "unhealthy", "raises"}
    [] check_name = "aws_credentials" -> {"healthy", "warning", "error", "raises"}
    [] check_name = "environment_variables" -> {"healthy", "unhealthy"}
    [] OTHER -> {"healthy", "unhealthy", "warning"}

\* the outcomes of the four checks of one run: check_aws_credentials raises
\* only when importing boto3 failed, which check_python_environment met too
HealthCheckRuns ==
  { o \in [CheckNames -> {"healthy", "unhealthy", "warning", "error", "raises"}] :
      /\ \A c \in CheckNames : o[c] \in CheckOutcomes(c)
      /\ o["aws_credentials"] = "raises" =>
           o["python_environment"] \in {"unhealthy", "raises"} }

NoHealth ==
  [pc |-> "idle", checks |-> [c \in CheckNames |-> "none"], overall_status |-> "none",
   system_info |-> "none", internal_error |-> FALSE, exit_code |-> NoTime]

HealthIdle == health = NoHealth

\* perform_full_health_check (235-238): unhealthy_count, and (240-245) a
\* check that raised
unhealthy_count(outcomes) ==
  Cardinality({c \in CheckNames : outcomes[c] \in {"unhealthy", "raises"}})

\* perform_full_health_check (237-238): warning_count
warning_count(outcomes) ==
  Cardinality({c \in CheckNames : outcomes[c] \in {"warning", "error"}})

\* perform_full_health_check (211-259)
perform_full_health_check(hc, outcomes, system_info_raises) ==
  [hc EXCEPT !.pc = "checked",
            !.checks = [c \in CheckNames |->
                          IF outcomes[c] = "raises" THEN "error" ELSE outcomes[c]],
            !.system_info = IF system_info_raises THEN "error" ELSE "info",
            !.overall_status = IF unhealthy_count(outcomes) > 0 THEN "unhealthy"
                               ELSE IF warning_count(outcomes) > 0 THEN "warning"
                               ELSE "healthy"]

\* main (269-287): the result is printed and the process exits; printing
\* can fail
exit(hc, print_raises) ==
  IF print_raises
  THEN [hc EXCEPT !.pc = "exited", !.internal_error = TRUE, !.overall_status = "error",
                 !.exit_code = 1]
  ELSE [hc EXCEPT !.pc = "exited",
                 !.exit_code = IF hc.overall_status = "unhealthy" THEN 1 ELSE 0]

PerformFullHealthCheck ==
  /\ health.pc = "started"
  /\ \E outcomes \in HealthCheckRuns :
     \E system_info_raises \in BOOLEAN :
       health' = perform_full_health_check(health, outcomes, system_info_raises)
  /\ UNCHANGED <<prodVars, handlerVars, analyzerVars, publisherVars, controllerVars,
                 trafficVars, generator, poller, logs, exp_backoff>>

MainExits ==
  /\ health.pc = "checked"
  /\ \E print_raises \in BOOLEAN : health' = exit(health, print_raises)
  /\ UNCHANGED <<prodVars, handlerVars, analyzerVars, publisherVars, controllerVars,
                 trafficVars, generator, poller, logs, exp_backoff>>

(***************************************************************************)
(* The components that are not part of a behaviour stay as constructed.    *)
(***************************************************************************)
RestIdle == GeneratorIdle /\ PollerIdle /\ LogsIdle /\ BackoffIdle /\ HealthIdle

(***************************************************************************)
(* The sentiment analyzer (sentiment_analyzer.py): analyze_batch invokes   *)
(* the model with retries (_invoke_bedrock) and parses the score array     *)
(* (_parse_response).  Scores are in tenths.                               *)
(***************************************************************************)
\* SentimentAnalyzer.__init__ (156-181): max_retries of the backoff
analyzer_max_retries == 3

\* should_retry (109-114)
retryable_exceptions ==
  {"ThrottlingException", "InternalServerException", "ServiceUnavailableException",
   "TooManyRequestsException"}

\* what invoke_model, or reading its body, can raise: a client error with an
\* error code in its response, or an exception without a response
NoException == [cls |-> "none", code |-> "none"]

BedrockErrors ==
  {[cls |-> "ClientError", code |-> c] :
      c \in retryable_exceptions \cup {"ValidationException", "AccessDeniedException"}}
  \cup {[cls |-> n, code |-> "none"] :
      n \in {"ThrottlingException", "JSONDecodeError", "ReadTimeoutError"}}

\* should_retry, whatever the exception is
bedrock_should_retry_any(att, exception) == att < analyzer_max_retries

\* ExponentialBackoff.should_retry (81-139)
bedrock_should_retry(att, exception) ==
  IF att >= analyzer_max_retries THEN FALSE
  ELSE IF exception.code # "none" /\ exception.code \in retryable_exceptions THEN TRUE
  ELSE exception.cls \in retryable_exceptions

\* the entries of the JSON array of the model, as json.loads gives them: a
\* float (in tenths), a string that is no number, null, true, and an integer
\* too large for a float
Scores ==
  {[t |-> "float", v |-> x] : x \in {-15, -1, 0, 2, 15}}
  \cup {[t |-> "str", v |-> 0], [t |-> "null", v |-> 0], [t |-> "bool", v |-> 10],
        [t |-> "bigint", v |-> 0]}

\* float(score) (444): the value, or the exception raised
to_float(score) ==
  CASE score.t \in {"float", "bool"} -> [exc |-> "none", v |-> score.v]
    [] score.t = "str" -> [exc |-> "ValueError", v |-> 0]
    [] score.t = "null" -> [exc |-> "TypeError", v |-> 0]
    [] score.t = "bigint" -> [exc |-> "OverflowError", v |-> 0]

\* max(-1.0, min(1.0, score_value)) (447)
clamp(v) == IF v > 10 THEN 10 ELSE IF v < -10 THEN -10 ELSE v

\* the sentiment category of a score (450-455)
category(v) == IF v > 1 THEN "positive" ELSE IF v < -1 THEN "negative" ELSE "neutral"

\* the array padded with 0.0 or truncated to the number of posts (412-429)
pad_or_truncate(posts, scores) ==
  IF Len(scores) < Len(posts)
  THEN scores \o [i \in 1..(Len(posts) - Len(scores)) |-> [t |-> "float", v |-> 0]]
  ELSE SubSeq(scores, 1, Len(posts))

RECURSIVE correlate(_, _, _, _)
\* the loop over the scores (432-479): a result per score, a neutral one when
\* float raises ValueError or TypeError; any other exception leaves the loop
\* and _parse_response raises ValueError (489-491)
correlate(posts, sentiment_data, idx, results) ==
  IF idx > Len(sentiment_data) THEN [raised |-> FALSE, results |-> results]
  ELSE LET f == to_float(sentiment_data[idx])
       IN  IF f.exc = "none"
           THEN correlate(posts, sentiment_data, idx + 1,
                  Append(results, [post_id |-> posts[idx], sentiment |-> category(clamp(f.v)),
                                   sentiment_score |-> clamp(f.v), confidence |-> 10]))
           ELSE IF f.exc \in {"ValueError", "TypeError"}
           THEN correlate(posts, sentiment_data, idx + 1,
                  Append(results, [post_id |-> posts[idx], sentiment |-> "neutral",
                                   sentiment_score |-> 0, confidence |-> 5]))
           ELSE [raised |-> TRUE, results |-> <<>>]

\* _parse_response for a response that holds a JSON array (362-491)
parse_response(posts, scores) == correlate(posts, pad_or_truncate(posts, scores), 1, <<>>)

NoAnalysis ==
  [pc |-> "idle", posts |-> <<>>, attempt |-> 0, calls |-> 0, transient |-> 0,
   last_exception |-> NoException, array |-> FALSE, scores |-> <<>>, results |-> <<>>]

AnalyzerIdle == analyzer = NoAnalysis

\* analyze_batch (183-233): nothing for no posts; else the prompt is built
\* and _invoke_bedrock makes its first call (312-320)
AnalyzeBatch ==
  /\ analyzer.pc = "start"
  /\ analyzer' = IF analyzer.posts = <<>>
                 THEN [analyzer EXCEPT !.pc = "returned"]
                 ELSE [analyzer EXCEPT !.pc = "invoking", !.calls = 1]
  /\ UNCHANGED <<prodVars, handlerVars, publisherVars, controllerVars, trafficVars, restVars>>

\* _invoke_bedrock: the call or the reading of its body raises (333-360);
\* transient counts the failures that are throttling, internal, unavailable
\* or too-many-requests errors
InvokeModelRaises(exception) ==
  /\ analyzer.pc = "invoking"
  /\ LET a == [analyzer EXCEPT
                 !.last_exception = exception,
                 !.transient = IF exception.code \in retryable_exceptions
                                  \/ exception.cls \in retryable_exceptions
                               THEN @ + 1 ELSE @]
     IN  analyzer' =
           IF bedrock_should_retry(analyzer.attempt, exception)
           THEN IF analyzer.attempt + 1 <= analyzer_max_retries
                THEN [a EXCEPT !.attempt = @ + 1, !.calls = @ + 1]
                ELSE [a EXCEPT !.attempt = @ + 1, !.pc = "invoke_raised"]
           ELSE [a EXCEPT !.pc = "invoke_raised"]
  /\ UNCHANGED <<prodVars, handlerVars, publisherVars, controllerVars, trafficVars, restVars>>

\* the model returns a JSON array of scores (315-331); _parse_response
InvokeModelReturns(scores) ==
  /\ analyzer.pc = "invoking"
  /\ LET r == parse_response(analyzer.posts, scores)
     IN  analyzer' = [analyzer EXCEPT !.array = TRUE, !.scores = scores,
                                      !.results = r.results,
                                      !.pc = IF r.raised THEN "parse_raised" ELSE "returned"]
  /\ UNCHANGED <<prodVars, handlerVars, publisherVars, controllerVars, trafficVars, restVars>>

\* the model returns something that holds no JSON array; _parse_response
\* raises ValueError (383-410, 486-491)
InvokeModelReturnsNoArray ==
  /\ analyzer.pc = "invoking"
  /\ analyzer' = [analyzer EXCEPT !.pc = "parse_raised"]
  /\ UNCHANGED <<prodVars, handlerVars, publisherVars, controllerVars, trafficVars, restVars>>

NextAnalyzer ==
  \/ AnalyzeBatch
  \/ \E e \in BedrockErrors : InvokeModelRaises(e)
  \/ \E n \in 0..MaxScores : \E scores \in [1..n -> Scores] : InvokeModelReturns(scores)
  \/ InvokeModelReturnsNoArray

InitAnalyzerCall ==
  \E n \in 0..MaxPosts : \E posts \in [1..n -> PostIds] :
    analyzer = [NoAnalysis EXCEPT !.pc = "start", !.posts = posts]

\* one analyze_batch call; the producer and the handler are not used
InitAnalyzer == InitProducer /\ HandlerIdle /\ InitAnalyzerCall /\ PublisherIdle /\ ControllerIdle /\ TrafficIdle /\ RestIdle

SpecAnalyzer == InitAnalyzer /\ [][NextAnalyzer]_vars

NextHandler ==
  \/ HandlerStart
  \/ Deserialize
  \/ CheckTime
  \/ LoopHead
  \/ Analyze
  \/ AfterLoop

\* an invocation of the handler; the producer is not used
InitInvocation == InitProducer /\ InitHandler /\ AnalyzerIdle /\ PublisherIdle /\ ControllerIdle /\ TrafficIdle /\ RestIdle

SpecHandler == InitInvocation /\ [][NextHandler]_vars

(***************************************************************************)
(* SpecSend: one caller and the batch timer, a few posts, and a service    *)
(* that may answer a put_records call in every way: the retry loop, the    *)
(* partial failures.                                                       *)
(***************************************************************************)
NextSend ==
  \/ SendPost("c1", SendRecords, RecordSizes)
  \/ AddResumes("c1")
  \/ Flush("c1")
  \/ FlushResumes("c1")
  \/ BatchTimeout
  \/ BatchTimeoutResumes
  \/ PutRecordsReturns(RecordResults)
  \/ PutRecordsClientError(ClientErrorCodes)
  \/ PutRecordsOtherError

\* one caller, no handler invocation
InitSend == InitProducer /\ HandlerIdle /\ AnalyzerIdle /\ PublisherIdle /\ ControllerIdle /\ TrafficIdle /\ RestIdle

SpecSend == InitSend /\ [][NextSend]_vars

(***************************************************************************)
(* SpecProducer: two callers and the batch timer, enough posts for the     *)
(* circuit breaker to open, the clock, and a service that accepts a batch  *)
(* or fails the call with a ClientError: batching, the lock, the timer, the circuit breaker.  *)
(***************************************************************************)
NextProducer ==
  \/ \E c \in Callers : SendPost(c, MaxRecords, {1})
  \/ \E c \in Callers : AddResumes(c)
  \/ \E c \in Callers : Flush(c)
  \/ \E c \in Callers : FlushResumes(c)
  \/ BatchTimeout
  \/ BatchTimeoutResumes
  \/ PutRecordsReturns({"ok"})
  \/ PutRecordsClientError(ClientErrorCodes)
  \/ Tick

\* the producer, no handler invocation
InitProducerAlone == InitProducer /\ HandlerIdle /\ AnalyzerIdle /\ PublisherIdle /\ ControllerIdle /\ TrafficIdle /\ RestIdle

SpecProducer == InitProducerAlone /\ [][NextProducer]_vars

(***************************************************************************)
(* SpecTimer: two callers and the batch timer, a few posts, a service that *)
(* accepts a batch or rejects the call, under the scheduling of the event  *)
(* loop: a task that is ready runs (a timer whose sleep is over, a task    *)
(* that was given the lock). Nothing makes a caller call or the service    *)
(* answer.                                                                 *)
(***************************************************************************)
NextTimer ==
  \/ \E c \in Callers : SendPost(c, TimerRecords, {1})
  \/ \E c \in Callers : AddResumes(c)
  \/ \E c \in Callers : Flush(c)
  \/ \E c \in Callers : FlushResumes(c)
  \/ BatchTimeout
  \/ BatchTimeoutResumes
  \/ PutRecordsReturns({"ok"})
  \/ PutRecordsClientError({"InvalidArgumentException"})

FairTimer ==
  /\ WF_vars(BatchTimeout)
  /\ WF_vars(BatchTimeoutResumes)
  /\ \A c \in Callers : WF_vars(AddResumes(c)) /\ WF_vars(FlushResumes(c))

\* the producer and its timer, no handler invocation
InitTimer == InitProducer /\ HandlerIdle /\ AnalyzerIdle /\ PublisherIdle /\ ControllerIdle /\ TrafficIdle /\ RestIdle

SpecTimer == InitTimer /\ [][NextTimer]_vars /\ FairTimer

(***************************************************************************)
(* The generator process (main.py): main() runs DemoDataGenerator.start in *)
(* demo_task and waits for it or for the shutdown event.  The generation   *)
(* loop uses the producer as caller "c1".                                  *)
(***************************************************************************)
\* mutant: the loop also stops once a batch send has failed
LoopCondition_no_failures(p) ==
  /\ p.demo_task.is_running /\ ~p.demo_task.shutdown_requested
  /\ p.circuit_breaker_failures = 0

\* _run_demo_loop (143): while self.is_running and not self.shutdown_requested
LoopCondition(p) == p.demo_task.is_running /\ ~p.demo_task.shutdown_requested

\* task.cancel() for a task inside the producer: CancelledError is raised at
\* the await it is at, the wait for the lock or put_records under the lock;
\* no except clause of the producer catches it and the lock is released
CancelCaller(p, c) ==
  LET q == [p EXCEPT !.call = NoCall]
  IN  IF q.task[c].pc = "idle" THEN q
      ELSE IF q.task[c].pc \in {"add_wait", "flush_wait"}
      THEN IF q.lock_owner = c
           THEN [Unlock(q) EXCEPT !.task[c] = IdleTask]
           ELSE [q EXCEPT !.lock_waiters = SelectSeq(@, LAMBDA w : w # c),
                          !.task[c] = IdleTask]
      ELSE [Unlock(q) EXCEPT
              !.send = IdleSend,
              !.hist.last_send = Ended(q, "cancelled", "none", q.send.batch_to_send),
              !.task[c] = IdleTask]

\* the loop is left and the managed scope of the producer with it (129-130):
\* close() stops the metrics publishing first: the publishing task is
\* cancelled and awaited (kinesis_producer.py 518-520, cloudwatch_metrics.py
\* 295-304); flush_metrics then finds the buffer empty (470-475)
BeginClose(p, reason) ==
  [p EXCEPT !.demo_task.pc = "stop_publishing",
            !.demo_task.exit = reason,
            !.publishing_task.pc = "cancelled"]

\* start() ends (133-137): finally is_running = False
DemoEnds(p, was_cancelled) ==
  [p EXCEPT !.demo_task.pc = "done",
            !.demo_task.is_running = FALSE,
            !.demo_task.cancelled = was_cancelled]

\* task.cancel() for demo_task (main, 445): CancelledError is raised at the
\* await the task is at.  In the loop it is caught and the loop left (168-170);
\* in the sleep of the except clause it leaves the loop as an exception; in
\* both cases the managed scope is left through close().  Where close()
\* awaits the cancelled publishing task the except clause around that await
\* swallows it (cloudwatch_metrics.py 301-304).  Before the scope is entered,
\* or in the flush of close(), nothing catches it and the task ends; a
\* flush that has nothing left to await has returned, and start() with it.
CancelDemo(p) ==
  CASE p.demo_task.pc = "entering" -> DemoEnds(p, TRUE)
    [] p.demo_task.pc = "loop" -> BeginClose(CancelCaller(p, "c1"), "cancelled")
    [] p.demo_task.pc = "error_sleep" ->
         [BeginClose(p, "cancelled") EXCEPT !.demo_task.cancelled = TRUE]
    [] p.demo_task.pc = "stop_publishing" -> p
    [] p.demo_task.pc = "closing" ->
         IF p.task["c1"].pc = "idle"
         THEN DemoEnds([p EXCEPT !.closed = "closed"], p.demo_task.cancelled)
         ELSE DemoEnds(CancelCaller(p, "c1"), TRUE)
    [] OTHER -> p

\* DemoDataGenerator.stop (346-350): the stop flag is set, then sleep(1)
StopBegins(p) ==
  [p EXCEPT !.demo_task.shutdown_requested = TRUE, !.main_task.pc = "stop_sleep"]

\* main (414-432): the generator, the signal handlers and the two tasks are
\* created; start() creates the producer and enters its managed scope, which
\* tests the metrics permissions (97-129, cloudwatch_metrics.py 282-293)
MainStarts ==
  /\ main_task.pc = "none"
  /\ Apply([Cur EXCEPT !.main_task.pc = "waiting",
                        !.demo_task = [NoDemo EXCEPT !.pc = "entering", !.is_running = TRUE]])
  /\ UNCHANGED <<now, next_id>>

\* __aenter__ returns: the publishing loop is started, the loop begins (130)
DemoEnters ==
  /\ demo_task.pc = "entering"
  /\ Apply([Cur EXCEPT !.demo_task.pc = "loop", !.demo_task.entered = TRUE])
  /\ UNCHANGED <<now, next_id>>

\* _run_demo_loop, one pass of the loop up to send_posts_batch (143-162):
\* the loop condition, is_demo_complete, an exception of the pass before the
\* posts are sent (except Exception, 171-174), or send_posts_batch is called
DemoLoop(n, complete, raises) ==
  /\ demo_task.pc = "loop"
  /\ call.pc \in {"idle", "returned"}
  /\ IF ~LoopCondition(Cur) THEN Apply(BeginClose(Cur, "condition"))
     ELSE IF complete THEN Apply(BeginClose(Cur, "complete"))
     ELSE IF raises THEN Apply([Cur EXCEPT !.demo_task.pc = "error_sleep"])
     ELSE /\ next_id + n - 1 <= MainRecords
          /\ Apply([Cur EXCEPT !.call = [pc |-> "posting", caller |-> "c1", todo |-> n,
                                          successful |-> 0, failed |-> 0, first |-> next_id,
                                          stream_before |-> Len(hist.stream)]])
  /\ UNCHANGED <<now, next_id>>

\* the sleep(1) of the except clause is over (174)
DemoErrorSleepEnds ==
  /\ demo_task.pc = "error_sleep"
  /\ Apply([Cur EXCEPT !.demo_task.pc = "loop"])
  /\ UNCHANGED <<now, next_id>>

\* close(): stop_metrics_publishing has returned; the batch timer is
\* cancelled and flush is called (kinesis_producer.py 522-531)
DemoStopPublishingReturns ==
  /\ demo_task.pc = "stop_publishing"
  /\ Apply([CloseBody(Cur, "c1", now) EXCEPT !.demo_task.pc = "closing"])
  /\ UNCHANGED <<now, next_id>>

\* close(): flush has returned, the scope is left and start() ends (131-137)
DemoCloseReturns ==
  /\ demo_task.pc = "closing"
  /\ task["c1"].pc = "idle"
  /\ Apply(DemoEnds([Cur EXCEPT !.closed = "closed"], demo_task.cancelled))
  /\ UNCHANGED <<now, next_id>>

\* SignalHandler._signal_handler (404-407): SIGINT or SIGTERM sets the event
Signal ==
  /\ main_task.pc = "waiting"
  /\ ~main_task.signal
  /\ Apply([Cur EXCEPT !.main_task.signal = TRUE])
  /\ UNCHANGED <<now, next_id>>

\* main: asyncio.wait returns (438-453): the pending task is cancelled and
\* awaited; if the shutdown task is done, stop() is called
MainWakes ==
  /\ main_task.pc = "waiting"
  /\ main_task.signal \/ demo_task.pc = "done"
  /\ LET p == IF demo_task.pc = "done" THEN Cur ELSE CancelDemo(Cur)
     IN  IF p.demo_task.pc # "done"
         THEN Apply([p EXCEPT !.main_task.pc = "await_cancelled"])
         ELSE IF p.main_task.signal THEN Apply(StopBegins(p))
         ELSE Apply([p EXCEPT !.main_task.pc = "returned"])
  /\ UNCHANGED <<now, next_id>>

\* main: the cancelled demo task has ended (446-453); stop() is called
MainDemoCancelled ==
  /\ main_task.pc = "await_cancelled"
  /\ demo_task.pc = "done"
  /\ Apply(StopBegins(Cur))
  /\ UNCHANGED <<now, next_id>>

\* stop(): the sleep is over (352-359); main returns (455-467)
StopReturns ==
  /\ main_task.pc = "stop_sleep"
  /\ Apply([Cur EXCEPT !.demo_task.is_running = FALSE, !.main_task.pc = "returned"])
  /\ UNCHANGED <<now, next_id>>

(***************************************************************************)
(* SpecMain: the generator process: the loop hands posts to the producer,  *)
(* put_records succeeds or fails, the metrics loop publishes or fails, a   *)
(* shutdown signal may come at any time.                                   *)
(***************************************************************************)
NextMain ==
  \/ MainStarts
  \/ DemoEnters
  \/ \E n \in 1..2 : \E complete, raises \in BOOLEAN : DemoLoop(n, complete, raises)
  \/ DemoErrorSleepEnds
  \/ BatchSendPost("c1", {1})
  \/ BatchFlush("c1")
  \/ AddResumes("c1")
  \/ FlushResumes("c1")
  \/ BatchTimeout
  \/ BatchTimeoutResumes
  \/ PutRecordsReturns({"ok"})
  \/ PutRecordsClientError({"InvalidArgumentException"})
  \/ publishing_task.pc # "cancelled" /\ PublishingLoopWakes
  \/ FlushMetricsReturns
  \/ FlushMetricsFails
  \/ DemoStopPublishingReturns
  \/ DemoCloseReturns
  \/ Signal
  \/ MainWakes
  \/ MainDemoCancelled
  \/ StopReturns

InitMain == InitProducer /\ HandlerIdle /\ AnalyzerIdle /\ PublisherIdle /\ ControllerIdle /\ TrafficIdle /\ RestIdle

SpecMain == InitMain /\ [][NextMain]_vars

(***************************************************************************)
(* SpecShutdown: the generator process with a stream that accepts or     *)
(* throttles each record.  The batch timer and the metrics loop do not     *)
(* wake; main and the demo task run when they can, and every put_records   *)
(* call is answered.                                                       *)
(***************************************************************************)
NextShutdown ==
  \/ MainStarts
  \/ DemoEnters
  \/ \E n \in 1..2 : \E complete \in BOOLEAN : DemoLoop(n, complete, FALSE)
  \/ BatchSendPost("c1", {1})
  \/ BatchFlush("c1")
  \/ PutRecordsReturns({"ok", "ProvisionedThroughputExceededException"})
  \/ DemoStopPublishingReturns
  \/ DemoCloseReturns
  \/ Signal
  \/ MainWakes
  \/ MainDemoCancelled
  \/ StopReturns

FairShutdown ==
  /\ WF_vars(MainWakes)
  /\ WF_vars(\/ MainDemoCancelled
             \/ StopReturns
             \/ DemoStopPublishingReturns
             \/ DemoCloseReturns)
  /\ WF_vars(PutRecordsReturns({"ok", "ProvisionedThroughputExceededException"}))

InitShutdown == InitProducer /\ HandlerIdle /\ AnalyzerIdle /\ PublisherIdle /\ ControllerIdle /\ TrafficIdle /\ RestIdle

SpecShutdown == InitShutdown /\ [][NextShutdown]_vars /\ FairShutdown

(***************************************************************************)
(* SpecMetrics: the sends of SpecSend with the metrics publishing loop      *)
(* running beside them.                                                    *)
(***************************************************************************)
NextMetrics ==
  \/ NextSend
  \/ PublishingLoopWakes
  \/ FlushMetricsReturns

InitMetrics == InitProducer /\ HandlerIdle /\ AnalyzerIdle /\ PublisherIdle /\ ControllerIdle /\ TrafficIdle /\ RestIdle

SpecMetrics == InitMetrics /\ [][NextMetrics]_vars

(***************************************************************************)
(* SpecBatch: one caller hands its posts to send_posts_batch, call after   *)
(* call; the batch timer runs; put_records answers as it likes.            *)
(***************************************************************************)
NextBatch ==
  \/ \E n \in 1..BatchCallRecords : SendPostsBatch("c1", n)
  \/ BatchSendPost("c1", {1})
  \/ BatchSendPostFails("c1")
  \/ BatchFlush("c1")
  \/ AddResumes("c1")
  \/ FlushResumes("c1")
  \/ BatchTimeout
  \/ BatchTimeoutResumes
  \/ PutRecordsReturns({"ok", "ProvisionedThroughputExceededException", "InternalFailure"})
  \/ PutRecordsClientError({"InvalidArgumentException"})

InitBatch == InitProducer /\ HandlerIdle /\ AnalyzerIdle /\ PublisherIdle /\ ControllerIdle /\ TrafficIdle /\ RestIdle

SpecBatch == InitBatch /\ [][NextBatch]_vars

(***************************************************************************)
(* SpecClose: the producer used and then closed: two callers and the batch *)
(* timer, a few posts, a service that accepts a batch, reports records as  *)
(* throttled or rejects the call; once close is called the producer gets   *)
(* no other call.                                                          *)
(***************************************************************************)
NextClose ==
  \/ closed = "open" /\ \E c \in Callers : SendPost(c, CloseRecords, {1})
  \/ \E c \in Callers : AddResumes(c)
  \/ closed = "open" /\ \E c \in Callers : Flush(c)
  \/ \E c \in Callers : FlushResumes(c)
  \/ BatchTimeout
  \/ BatchTimeoutResumes
  \/ \E c \in Callers : Close(c)
  \/ CloseReturns
  \/ PutRecordsReturns({"ok", "ProvisionedThroughputExceededException"})
  \/ PutRecordsClientError({"InvalidArgumentException"})

\* the producer, no handler invocation
InitClose == InitProducer /\ HandlerIdle /\ AnalyzerIdle /\ PublisherIdle /\ ControllerIdle /\ TrafficIdle /\ RestIdle

SpecClose == InitClose /\ [][NextClose]_vars

(***************************************************************************)
(* SpecPublisher: the metrics publisher used by a caller: points are       *)
(* buffered, the periodic task and the caller flush, put_metric_data       *)
(* returns or raises, publishing is stopped.                               *)
(***************************************************************************)
NextPublisher ==
  \/ PublishCustomMetric
  \/ StartPublishing
  \/ \E k \in 0..1 : PublishingLoopFlushes(k)
  \/ PublishingLoopErrorSleepEnds
  \/ CallerFlushes
  \/ CallerGoesOn
  \/ \E who \in Flushers : PutMetricDataReturns(who)
  \/ \E who \in Flushers : \E e \in PutMetricDataErrors : PutMetricDataRaises(who, e)
  \/ \E who \in Flushers : PublishBackoffEnds(who)
  \/ StopPublishing
  \/ PublishingTaskEnds
  \/ StopPublishingFlushes

InitPublisher ==
  InitProducer /\ HandlerIdle /\ AnalyzerIdle /\ PublisherIdle /\ ControllerIdle /\ TrafficIdle /\ RestIdle

SpecPublisher == InitPublisher /\ [][NextPublisher]_vars

(***************************************************************************)
(* SpecController: one invocation of the demo controller for any event of  *)
(* a small set, on a fleet with one or two containers; each call of the    *)
(* fleet service returns or raises.                                        *)
(***************************************************************************)
NextController ==
  \/ Invoke
  \/ FleetCallReturns
  \/ FleetCallRaisesClientError
  \/ FleetCallRaisesOther

\* the event and the environment of the invocation
InitInvoked ==
  \E operation \in Operations :
  \E phase_number \in 0..(MaxPhases + 1) :
  \E phases \in UNION {[1..n -> 0..MaxTps] : n \in 0..MaxPhases} :
  \E cap \in {0, PerTaskCapacity} :
  \E flags \in [{"start_time", "arn"} -> BOOLEAN] :
  \E containers \in UNION {[1..n -> Environments] : n \in 1..MaxContainers} :
    controller =
      [NoInvocation EXCEPT
         !.pc = "invoked",
         !.operation = operation,
         !.event = <<operation, phase_number>>,
         !.phase_number = phase_number,
         !.phases = phases,
         !.error = "States.TaskFailed",
         !.has_start_time = flags["start_time"],
         !.execution_arn = flags["arn"],
         !.per_task_capacity = cap,
         !.fleet.environment = containers]

InitController ==
  InitProducer /\ HandlerIdle /\ AnalyzerIdle /\ PublisherIdle /\ InitInvoked /\ TrafficIdle /\ RestIdle

SpecController == InitController /\ [][NextController]_vars

(***************************************************************************)
(* SpecTraffic: a controller built for any four phase durations; the demo  *)
(* is started at some time, the accessors are called, time passes.         *)
(***************************************************************************)
NextTraffic ==
  \/ StartDemo
  \/ \E a \in Accessors : CallAccessor(a)
  \/ ClockTick

\* TrafficPatternController.__init__ (284-288) with the durations of the
\* configuration (config.py 33-41: four durations, each positive)
InitConstructed ==
  \E durations \in [1..4 -> 1..MaxDuration] :
    traffic = [NoTraffic EXCEPT !.durations = durations]

InitTraffic ==
  InitProducer /\ HandlerIdle /\ AnalyzerIdle /\ PublisherIdle /\ ControllerIdle
    /\ InitConstructed /\ RestIdle

SpecTraffic == InitTraffic /\ [][NextTraffic]_vars

(***************************************************************************)
(* SpecPhases: the main loop of the generator under each controller mode,  *)
(* with any phase the controller of that mode can report.                  *)
(***************************************************************************)
NextPhases ==
  \/ DemoLoopIteration
  \/ DemoLoopStops

InitPhases ==
  /\ InitProducer /\ HandlerIdle /\ AnalyzerIdle /\ PublisherIdle /\ ControllerIdle
  /\ TrafficIdle /\ PollerIdle /\ LogsIdle /\ BackoffIdle /\ HealthIdle
  /\ \E mode \in ControllerModes : generator = Constructed(mode)

SpecPhases == InitPhases /\ [][NextPhases]_vars

(***************************************************************************)
(* SpecPoller: the polling controller with any datapoints in CloudWatch;   *)
(* its accessors are called in bursts, and every query answers or raises.  *)
(***************************************************************************)
NextPoller ==
  \/ GetCurrentPhaseNumber
  \/ GetTargetTps
  \/ IsDemoRunning
  \/ PollerWaits

\* the datapoints at the first call: none, or one that is fresh, 7 minutes
\* old or 11 minutes old
InitPolling ==
  \E phase \in {NoDatapoint} \cup
                [Timestamp : {FirstPoll, FirstPoll - 420, FirstPoll - 660}, Maximum : {0, 2}] :
  \E tps \in {NoDatapoint, [Timestamp |-> FirstPoll, Maximum |-> 100]} :
    poller = [NoPoller EXCEPT !.clock = FirstPoll,
                              !.datapoints = [m \in Metrics |->
                                 IF m = "CurrentPhase" THEN phase ELSE tps]]

InitPoller ==
  /\ InitProducer /\ HandlerIdle /\ AnalyzerIdle /\ PublisherIdle /\ ControllerIdle
  /\ TrafficIdle /\ GeneratorIdle /\ LogsIdle /\ BackoffIdle /\ HealthIdle
  /\ InitPolling

SpecPoller == InitPoller /\ [][NextPoller]_vars

(***************************************************************************)
(* SpecLogs: insights are published to two of the streams and flushed;     *)
(* every call of the logs service answers in one of the ways the code      *)
(* distinguishes.                                                          *)
(***************************************************************************)
NextLogs ==
  \/ \E stream_name \in LogStreams : \E n \in 1..2 : Publish(stream_name, n)
  \/ PublishNext
  \/ FlushAll
  \/ FlushAllNext
  \/ \E answer \in PutLogEventsOutcomes : PutLogEventsAnswers(answer)
  \/ \E answer \in CreateLogStreamOutcomes : CreateLogStreamAnswers(answer)

InitLogs ==
  /\ InitProducer /\ HandlerIdle /\ AnalyzerIdle /\ PublisherIdle /\ ControllerIdle
  /\ TrafficIdle /\ GeneratorIdle /\ PollerIdle /\ LogsIdle /\ BackoffIdle /\ HealthIdle

SpecLogs == InitLogs /\ [][NextLogs]_vars

(***************************************************************************)
(* SpecBackoff: an ExponentialBackoff built with any of a few parameters;  *)
(* delays are requested, also past max_retries, and the state is reset.    *)
(***************************************************************************)
NextBackoff ==
  \/ GetDelay
  \/ Reset

InitExponentialBackoff ==
  \E base_delay_ \in {1, 3} :
  \E max_delay \in {2, 5, 100} :
  \E max_retries_ \in 0..MaxRetriesParameter :
  \E jitter \in BOOLEAN :
    exp_backoff = ExponentialBackoff(base_delay_, max_delay, max_retries_, jitter)

InitBackoff ==
  /\ InitProducer /\ HandlerIdle /\ AnalyzerIdle /\ PublisherIdle /\ ControllerIdle
  /\ TrafficIdle /\ GeneratorIdle /\ PollerIdle /\ LogsIdle /\ HealthIdle
  /\ InitExponentialBackoff

SpecBackoff == InitBackoff /\ [][NextBackoff]_vars

(***************************************************************************)
(* SpecHealth: one run of the health check script with any outcome of the  *)
(* four checks.                                                            *)
(***************************************************************************)
NextHealth ==
  \/ PerformFullHealthCheck
  \/ MainExits

InitHealth ==
  /\ InitProducer /\ HandlerIdle /\ AnalyzerIdle /\ PublisherIdle /\ ControllerIdle
  /\ TrafficIdle /\ GeneratorIdle /\ PollerIdle /\ LogsIdle /\ BackoffIdle
  /\ health = [NoHealth EXCEPT !.pc = "started"]

SpecHealth == InitHealth /\ [][NextHealth]_vars

(***************************************************************************)
(* Claims about the producer                                               *)
(***************************************************************************)
\* the circuit breaker is open: 3 or more failures in a row, the latest less
\* than 30 seconds ago
BreakerOpen ==
  /\ circuit_breaker_failures >= 3
  /\ circuit_breaker_last_failure # NoTime
  /\ now - circuit_breaker_last_failure < 30

\* in this step a batch came up for sending: it was dropped, or a send began
BatchComesUp ==
  \/ hist'.last_send.result = "dropped"
  \/ send.pc = "idle" /\ send'.pc = "put"

\* C1: while the circuit breaker is open, every batch that comes up for
\* sending is dropped without a put_records call, and each of its records is
\* counted in messages_failed.
C1_OpenBreakerDrops ==
  [][(BreakerOpen /\ BatchComesUp) =>
       LET b == hist'.last_send.batch
       IN  /\ hist'.last_send.result = "dropped"
           /\ send'.pc = "idle"
           /\ hist'.submitted = hist.submitted
           /\ b # <<>>
           /\ Len(b) \in {Len(current_batch), Len(current_batch) + 1}
           /\ SubSeq(b, 1, Len(current_batch)) = current_batch
           /\ current_batch' = <<>>
           /\ messages_failed' = messages_failed + Len(b)
           /\ \A i \in Ids(b) : hist'.last_send.failed_count[i] = 1]_vars

\* a batch has been dropped by the open breaker
C1_Witness ==
  /\ hist.last_send.result = "dropped"
  /\ circuit_breaker_failures >= 3
  /\ messages_failed >= 4

\* C2: the current batch is sent as soon as it holds max_batch_size records:
\* no put_records call carries more than max_batch_size records, and the
\* current batch holds fewer than max_batch_size records whenever no
\* add-record operation is in the middle of a step.
C2_SentWhenFull ==
  /\ Len(current_batch) < max_batch_size
  /\ send.pc = "put" => Len(send.batch) <= max_batch_size

\* an add-record filled the batch and the full batch is being sent
C2_Witness ==
  /\ \E c \in Callers : task[c].pc = "sending"
  /\ send.pc = "put"
  /\ Len(send.batch) = max_batch_size
  /\ current_batch = <<>>

\* C3: whenever records wait in the current batch a batch timer is pending,
\* and every record that waits in the current batch reaches a send attempt
\* or a circuit-breaker drop, with the timer and the tasks already holding or
\* waiting for the lock as the only things that must run.
C3_TimerFlushes ==
  /\ [](current_batch # <<>> => batch_timer_task \in {"sleeping", "waiting"})
  /\ \A i \in 1..TimerRecords :
        (i \in Ids(current_batch)) ~> (i \in hist.submitted \cup hist.dropped)

\* the batch timer has expired and is sending what had accumulated
C3_Witness ==
  /\ batch_timer_task = "sending"
  /\ send.pc = "put"
  /\ send.batch # <<>>

\* C4 as stated: a send whose publish call failed only with errors other than
\* throttling or InternalFailure / ServiceUnavailable has made exactly one
\* put_records call and has ended as a failed send.
C4_AnyOtherErrorNotRetried ==
  (/\ hist.last_send.result # "none"
   /\ hist.last_send.seen # {}
   /\ hist.last_send.seen \subseteq {"client_other", "network"})
  => (hist.last_send.calls = 1 /\ hist.last_send.result = "failed")

\* C4, amended: a publish call that fails with a ClientError whose code is
\* neither throttling nor InternalFailure / ServiceUnavailable is not retried:
\* no put_records call follows it, the batch ends as a failed send, and when
\* it was the first failure of the send exactly one call was made.
C4_ClientErrorNotRetried ==
  /\ send.pc = "put" => "client_other" \notin send.seen
  /\ "client_other" \in hist.last_send.seen
       => /\ hist.last_send.result = "failed"
          /\ hist.last_send.last = "client_other"
          /\ hist.last_send.seen = {"client_other"} => hist.last_send.calls = 1

\* a send has ended on a non-retryable ClientError at its first call
C4_Witness ==
  /\ hist.last_send.seen = {"client_other"}
  /\ hist.last_send.result = "failed"
  /\ hist.last_send.calls = 1

\* C5: a batch whose publish call fails every time with a throttling error
\* or a transient service error is attempted exactly max_retries times
\* before the send ends as failed.
C5_ExactlyMaxRetriesCalls ==
  (/\ hist.last_send.result = "failed"
   /\ hist.last_send.seen # {}
   /\ hist.last_send.seen \subseteq {"throttle", "transient"})
  => hist.last_send.calls = max_retries

\* C6: a record reported with an error code other than throttling is never
\* in a later put_records call of the send, and is counted once in
\* messages_failed.
C6_OtherCodeCountedOnce ==
  /\ send.pc = "put" => Ids(send.batch) \cap send.skipped = {}
  /\ \A i \in send.skipped : send.failed_count[i] = 1
  /\ \A i \in hist.last_send.skipped : hist.last_send.failed_count[i] = 1

\* C7: one send makes a bounded number of put_records calls: no more than
\* the max_retries of its retry loop.
C7_BoundedCalls == send.calls <= max_retries

(***************************************************************************)
(* The stream-consumer handler: C8 - C10                                   *)
(***************************************************************************)
\* the sequence numbers of the records that do not deserialize
FailToDeserialize ==
  {sequenceNumber(k) : k \in {j \in 1..Len(event) : deserialize_record(event[j], j) = NoPost}}

\* the records a sentiment result covers
Analysed == {h.all_sentiment_results[j].rec : j \in 1..Len(h.all_sentiment_results)}

Reported == {response[j] : j \in 1..Len(response)}

\* C8: on every return path of the handler, the response's batchItemFailures
\* holds the sequence number of every input record that failed to deserialize.
C8_DeserializeFailuresReported ==
  h_pc = "returned" => FailToDeserialize \subseteq Reported

\* a return after the analysis of some records, other records having failed to deserialize
C8_Witness ==
  /\ h_pc = "returned"
  /\ ~h.caught /\ ~h.timed_out
  /\ Analysed # {}
  /\ Cardinality(FailToDeserialize) = 2

\* C9: any exception raised during an invocation of the handler is caught by
\* the handler (none leaves it), and the response it then returns lists the
\* sequence number of every record of the event.
C9_AnyExceptionCaught ==
  /\ h_pc # "raised"
  /\ (h_pc = "returned" /\ h.caught) =>
        Reported = {sequenceNumber(k) : k \in 1..Len(event)}

\* C10: no analyzer call is started when the remaining time read just before
\* it is under 30,000 ms, and when the handler stops for lack of time every
\* record not analysed so far is reported in batchItemFailures.
C10_TimeoutReportsUnanalysed ==
  /\ \A j \in 1..Len(h.call_times) : h.call_times[j] >= 30000
  /\ (h_pc = "returned" /\ h.timed_out) =>
        \A k \in 1..Len(event) : k \notin Analysed => sequenceNumber(k) \in Reported

C14_BreakerClosesAfterTimeout ==
  [][(/\ BatchComesUp
      /\ circuit_breaker_failures >= 3
      /\ circuit_breaker_last_failure # NoTime
      /\ now - circuit_breaker_last_failure >= 30)
     => (/\ hist'.last_send.result # "dropped"
         /\ send'.pc = "put"
         /\ Ids(send'.batch_to_send) \subseteq hist'.submitted)]_vars

\* a put_records call under way with 3 failures counted, the last 30 s ago
C14_Witness ==
  /\ send.pc = "put"
  /\ circuit_breaker_failures >= 3
  /\ circuit_breaker_last_failure # NoTime
  /\ now - circuit_breaker_last_failure >= 30

\* C15: a successful batch send sets the failure count to zero, the count
\* changes in no other way than by one at a failed send, and a batch is
\* dropped by the breaker only with 3 or more failures counted: 3 failed
\* sends with no successful send between them.
C15_SuccessResetsBreaker ==
  [][/\ hist'.last_send.result = "ok" => circuit_breaker_failures' = 0
     /\ circuit_breaker_failures' # circuit_breaker_failures =>
           \/ hist'.last_send.result = "failed"
              /\ circuit_breaker_failures' = circuit_breaker_failures + 1
           \/ hist'.last_send.result = "ok"
     /\ hist'.last_send.result = "dropped" => circuit_breaker_failures >= 3]_vars

\* a successful send has ended with a zero count after a failed send
C15_Witness ==
  /\ hist.last_send.result = "ok"
  /\ circuit_breaker_failures = 0
  /\ messages_failed >= 2
  /\ hist.dropped = {}

\* C18: records with the same partition key enter the stream in the order
\* in which they were handed to the producer, also when throttled records are
\* resubmitted.
C18_SameKeyInOrder ==
  \A i, j \in 1..Len(hist.stream) :
    (i < j /\ get_partition_key(hist.stream[i]) = get_partition_key(hist.stream[j]))
      => hist.stream[i] < hist.stream[j]

\* C17 as stated: the successful count send_posts_batch returns is at most
\* the number of records put_records acknowledged during the call.
C17_SuccessfulOnlyAcknowledged ==
  call.pc = "returned" => call.successful <= Len(hist.stream) - call.stream_before

\* C17, amended: send_posts_batch counts as successful the posts of the call
\* that were serialized and added to a batch, and as failed those that were
\* not; when it returns every post counted as successful has been submitted
\* in a put_records call or dropped by the circuit breaker, acknowledged or
\* not.
C17_SuccessfulCountsBatched ==
  call.pc = "returned" =>
    LET posts == call.first..(next_id - 1)
    IN  /\ call.successful = Cardinality(posts \ hist.rejected)
        /\ call.failed = Cardinality(posts \cap hist.rejected)
        /\ posts \ hist.rejected \subseteq hist.submitted \cup hist.dropped

\* send_posts_batch has returned 2 successful and 1 failed, and the stream
\* acknowledged no record during the call
C17_Witness ==
  /\ call.pc = "returned"
  /\ call.successful = 2
  /\ call.failed = 1
  /\ Len(hist.stream) = call.stream_before

\* C16: the counters lose nothing and report nothing twice: what a publish
\* cycle reports is what the counters hold, the counters are zero after it,
\* and no other step lowers a counter or changes what was reported, also
\* while a cycle is in progress.
C16_IncrementsReportedOnce ==
  [][IF hist'.published # hist.published \/ publishing_task'.cycles # publishing_task.cycles
     THEN /\ hist'.published.messages_sent = hist.published.messages_sent + messages_sent
          /\ hist'.published.messages_failed = hist.published.messages_failed + messages_failed
          /\ messages_sent' = 0
          /\ messages_failed' = 0
     ELSE /\ messages_sent' >= messages_sent
          /\ messages_failed' >= messages_failed]_vars

\* counters incremented while the second publish cycle is in progress, after
\* the first cycle reported sent and failed records
C16_Witness ==
  /\ publishing_task.pc = "flushing"
  /\ publishing_task.cycles = 2
  /\ hist.published.messages_sent > 0
  /\ hist.published.messages_failed > 0
  /\ messages_failed > 0

(***************************************************************************)
(* The sentiment analyzer: C19 - C20                                       *)
(***************************************************************************)
\* a throttling / internal / unavailable / too-many-requests error
Transient(e) ==
  \/ e.code \in {"ThrottlingException", "InternalServerException",
                  "ServiceUnavailableException", "TooManyRequestsException"}
  \/ e.cls \in {"ThrottlingException", "InternalServerException",
                 "ServiceUnavailableException", "TooManyRequestsException"}

C20_OneResultPerPost ==
  (analyzer.array /\ analyzer.pc \in {"returned", "parse_raised"}) =>
    /\ analyzer.pc = "returned"
    /\ Len(analyzer.results) = Len(analyzer.posts)
    /\ \A i \in 1..Len(analyzer.posts) :
         LET r == analyzer.results[i]
         IN  /\ i <= Len(analyzer.results) => r.post_id = analyzer.posts[i]
             /\ (i <= Len(analyzer.results) /\ i > Len(analyzer.scores)) =>
                   (r.sentiment = "neutral" /\ r.sentiment_score = 0)
             /\ (i <= Len(analyzer.results) /\ i <= Len(analyzer.scores)
                  /\ analyzer.scores[i].t \in {"str", "null"}) =>
                   (r.sentiment = "neutral" /\ r.sentiment_score = 0 /\ r.confidence = 5)

(***************************************************************************)
(* The generator process: C12 - C13                                        *)
(***************************************************************************)
\* C12: the generation loop is left only when shutdown was signalled or the
\* phase controller reported completion, whatever put_records and the
\* metrics publishing did before.
C12_LoopEndsOnlyOnShutdown ==
  [][(demo_task.pc \in {"loop", "error_sleep"} /\ demo_task'.pc \notin {"loop", "error_sleep"})
       => (main_task.signal \/ demo_task'.exit = "complete")]_vars

\* the loop has called send_posts_batch again after a batch send failed and
\* a metrics publish failed, with no shutdown signalled
C12_Witness ==
  /\ demo_task.pc = "loop"
  /\ call.pc = "posting"
  /\ circuit_breaker_failures > 0
  /\ messages_failed > 0
  /\ publishing_task.failed > 0
  /\ ~main_task.signal

RECURSIVE Dedup(_)
Dedup(calls) ==
  IF Len(calls) <= 1 THEN calls
  ELSE IF calls[1] = calls[2] THEN Dedup(Tail(calls))
  ELSE <<calls[1]>> \o Dedup(Tail(calls))

RECURSIVE Concat(_)
Concat(chunks) == IF chunks = <<>> THEN <<>> ELSE Head(chunks) \o Concat(Tail(chunks))

\* the flush of this flusher has ended: it returned or raised
FlushOver(who) ==
  /\ publisher.flush[who].taken # <<>>
  /\ publisher.flush[who].pc \in {"sleeping", "error_sleep", "done", "returned", "raised"}
  /\ publisher.flush[who].error # "CancelledError"

\* C21: when a flush has ended, the points it took from the buffer have
\* each been put in exactly one batch, the batches were submitted in buffer
\* order, and no put_metric_data call carried more than max_batch_size points.
C21_FlushSendsEveryPointOnce ==
  \A who \in Flushers :
    /\ \A j \in DOMAIN publisher.flush[who].calls :
         Len(publisher.flush[who].calls[j]) <= metrics_max_batch_size
    /\ FlushOver(who) =>
         Concat(Dedup(publisher.flush[who].calls)) = publisher.flush[who].taken

\* C22: a batch answered with a throttling error is retried at most 3
\* times, the k-th retry after a sleep of 1s x 2^(k-1), and no exception
\* leaves the flush because of it.
C22_ThrottledRetriedThenAbandoned ==
  \A who \in Flushers :
    publisher.flush[who].last = "Throttling" =>
      /\ publisher.flush[who].attempt <= publish_max_retries
      /\ \A k \in DOMAIN publisher.flush[who].delays :
           publisher.flush[who].delays[k] = base_delay * 2 ^ (k - 1)
      /\ publisher.flush[who].error = "none"

\* C23: when stop_publishing has returned, the periodic task has ended and
\* every point buffered before the stop was in a put_metric_data call.
C23_StopFlushesEverything ==
  (publisher.op = "stop" /\ publisher.flush["caller"].pc = "returned") =>
    /\ publisher.flush["loop"].pc = "done"
    /\ publisher.before_stop \subseteq publisher.submitted

(***************************************************************************)
(* The demo controller: C24 - C28                                          *)
(***************************************************************************)
\* the entries of an environment with this name
Entries(environment, name) == SelectSeq(environment, LAMBDA env : env.name = name)

\* the entries of an environment that are neither DEMO_PHASE nor TARGET_TPS
OtherEntries(environment) ==
  SelectSeq(environment, LAMBDA env : env.name \notin {"DEMO_PHASE", "TARGET_TPS"})

C25_PhaseStartedOnlyWhenUpdated ==
  (/\ controller.pc = "done"
   /\ controller.operation = "start_phase"
   /\ controller.result.kind = "result"
   /\ \/ controller.result.status = "phase_started"
      \/ controller.result.current_phase = controller.phase_number)
  => /\ controller.fleet.serving = "registered"
     /\ controller.fleet.deployment > 0
     /\ controller.result.deployment_id = controller.fleet.deployment

\* C26: the TARGET_TPS entry written for every container is
\* target_tps // task_count with task_count = max(1, ceil(target_tps /
\* per_task_capacity)), and the result reports the same per_task_tps.
C26_TargetTpsIsPerTaskTps ==
  (controller.operation = "start_phase" /\ controller.fleet.registered # <<>>) =>
    LET target_tps == controller.phases[controller.phase_number]
        ceiling == (target_tps + controller.per_task_capacity - 1)
                     \div controller.per_task_capacity
        task_count == IF ceiling > 1 THEN ceiling ELSE 1
    IN  /\ \A k \in DOMAIN controller.fleet.registered :
             \A j \in DOMAIN controller.fleet.registered[k] :
               controller.fleet.registered[k][j].name = "TARGET_TPS"
                 => controller.fleet.registered[k][j].value = str(target_tps \div task_count)
        /\ controller.result.status = "phase_started"
             => controller.result.per_task_tps = target_tps \div task_count

\* C27: in the rewritten task definition every container has exactly one
\* DEMO_PHASE entry, with the new phase number, and exactly one TARGET_TPS
\* entry, with the per-task rate target_tps // task_count; its other
\* entries are those of the old definition, in the same order.
C27_EnvironmentRewritten ==
  (controller.operation = "start_phase" /\ controller.fleet.registered # <<>>) =>
    /\ DOMAIN controller.fleet.registered = DOMAIN controller.fleet.environment
    /\ \A k \in DOMAIN controller.fleet.registered :
         /\ Entries(controller.fleet.registered[k], "DEMO_PHASE")
              = << [name |-> "DEMO_PHASE", value |-> str(controller.phase_number)] >>
         /\ Entries(controller.fleet.registered[k], "TARGET_TPS")
              = << [name |-> "TARGET_TPS",
                    value |-> str(controller.phases[controller.phase_number]
                                    \div controller.task_count)] >>
         /\ OtherEntries(controller.fleet.registered[k])
              = OtherEntries(controller.fleet.environment[k])

\* C28: handle_failure returns a result that carries the original error,
\* and when the call that scales the service to zero failed the status of
\* the result is cleanup_failed.
C28_CleanupFailureReported ==
  (controller.pc = "done" /\ controller.operation = "handle_failure") =>
    /\ controller.result.kind = "result"
    /\ controller.result.error = controller.error
    /\ controller.fleet.failed = "scale_to_zero"
         => controller.result.status = "cleanup_failed"

(***************************************************************************)
(* The traffic-phase controller: C29 - C30                                 *)
(***************************************************************************)
\* C29: the phase get_current_phase reports never decreases, is one of
\* 1..4, and is 4 whenever the elapsed time is at or past the total duration.
C29_PhaseNeverDecreases ==
  [][/\ traffic'.reported >= traffic.reported
     /\ (traffic'.accessor = "get_current_phase" /\ traffic'.outcome = "returned")
          => /\ traffic'.value[1] \in 1..4
             /\ traffic'.value[1] = traffic'.reported
             /\ elapsed_seconds(traffic') >= cumulative_time(traffic'.durations, 4)
                  => traffic'.value[1] = 4]_vars

\* get_current_phase has returned phase 4 past the end of the demo
C29_Witness ==
  /\ traffic.demo_start_time # NoTime
  /\ traffic.accessor = "get_current_phase"
  /\ traffic.outcome = "returned"
  /\ elapsed_seconds(traffic) > cumulative_time(traffic.durations, 4)
  /\ traffic.value = <<4>>

\* C30 as stated: before start_demo every phase-dependent accessor fails
\* with the "not started" error.
C30_EveryAccessorFailsBeforeStart ==
  (traffic.demo_start_time = NoTime /\ traffic.accessor \in Accessors) =>
    traffic.outcome = "RuntimeError"

\* C30, amended: before start_demo, get_current_phase, get_target_tps and
\* calculate_messages_to_generate fail with "Demo has not been started";
\* get_phase_progress returns 0.0, get_remaining_time returns 0 and
\* get_post_type_distribution returns the default (0.7, 0.2, 0.1).
C30_AccessorsBeforeStart ==
  (traffic.demo_start_time = NoTime /\ traffic.accessor \in Accessors) =>
    CASE traffic.accessor \in
           {"get_current_phase", "get_target_tps", "calculate_messages_to_generate"} ->
           /\ traffic.outcome = "RuntimeError"
           /\ traffic.value = <<"Demo has not been started">>
      [] traffic.accessor = "get_phase_progress" ->
           traffic.outcome = "returned" /\ traffic.value = <<0, 1>>
      [] traffic.accessor = "get_remaining_time" ->
           traffic.outcome = "returned" /\ traffic.value = <<0>>
      [] OTHER ->
           traffic.outcome = "returned" /\ traffic.value = <<7, 2, 1>>

\* get_target_tps was called before start_demo and raised
C30_Witness ==
  /\ traffic.demo_start_time = NoTime
  /\ traffic.accessor = "get_target_tps"
  /\ traffic.outcome = "RuntimeError"

(***************************************************************************)
(* The main loop and the phases: C31                                       *)
(***************************************************************************)
\* C31: after an iteration of the main loop in which the controller's phase
\* differed from the tracked phase, the tracked phase and the producer's
\* phase are both that phase; the tracked phase never differs from the
\* phase the producer was given.
C31_TrackedPhaseIsProducerPhase ==
  /\ generator.differed =>
        /\ generator.current_phase = generator.reported
        /\ generator.current_demo_phase = generator.reported
  /\ generator.current_phase = generator.current_demo_phase

\* C31 under the internal controller
C31_InternalMode ==
  generator.mode = "internal" => C31_TrackedPhaseIsProducerPhase

(***************************************************************************)
(* The polling phase controller: C32 - C33                                 *)
(***************************************************************************)
\* C32: for each of the two metrics, two CloudWatch queries are never less
\* than 10 seconds apart.
C32_OneQueryPerWindow ==
  \A m \in Metrics : poller.gap[m] # NoTime => poller.gap[m] >= cache_ttl_seconds

\* C33: is_demo_running returns true only if CloudWatch holds a CurrentPhase
\* datapoint that is at most 5 minutes old at the time of the call.
C33_RunningOnlyWithRecentDatapoint ==
  (poller.accessor = "is_demo_running" /\ poller.value = <<TRUE>>) =>
    /\ poller.datapoints["CurrentPhase"].Timestamp # NoTime
    /\ poller.clock - poller.datapoints["CurrentPhase"].Timestamp <= 300

(***************************************************************************)
(* The log publisher of the consumer: C34                                  *)
(***************************************************************************)
\* C34: the entries of a stream that are no longer in its buffer are those
\* whose write succeeded or was answered as already accepted, and the
\* buffer holds the others in the order they were added; after a failed
\* write the sub-batch is still at the head of the buffer; and no call of
\* the publisher ends in an exception.
C34_EntriesLeaveAfterWrite ==
  /\ \A s \in LogStreams : logs.written[s] \o logs.buffers[s] = logs.added[s]
  /\ (~logs.last_write.success /\ logs.pc # "put_log_events") =>
        /\ Len(logs.last_write.batch) <= Len(logs.buffers[logs.last_write.stream_name])
        /\ SubSeq(logs.buffers[logs.last_write.stream_name], 1, Len(logs.last_write.batch))
             = logs.last_write.batch
  /\ logs.pc # "raised"

\* a write of two entries failed and a third entry was added behind them
C34_Witness ==
  /\ ~logs.last_write.success
  /\ Len(logs.last_write.batch) = 2
  /\ Len(logs.buffers[logs.last_write.stream_name]) = 3
  /\ logs.written[logs.last_write.stream_name] = <<>>

(***************************************************************************)
(* ExponentialBackoff: C35                                                 *)
(***************************************************************************)
\* C35 as stated: should_retry() is true exactly while fewer than
\* max_retries delays have been requested since the last reset, and
\* without jitter the k-th delay requested is
\* min(base_delay * 2^(k-1), max_delay), for every k.
C35_EveryDelayIsExponential ==
  /\ backoff_should_retry(exp_backoff)
        <=> Len(exp_backoff.delays) < exp_backoff.max_retries
  /\ ~exp_backoff.jitter =>
        \A k \in 1..Len(exp_backoff.delays) :
          exp_backoff.delays[k]
            = Min(exp_backoff.base_delay * 2 ^ (k - 1), exp_backoff.max_delay)

\* C35, amended: should_retry() as stated; without jitter the k-th delay
\* requested is min(base_delay * 2^(k-1), max_delay) for k <= max_retries,
\* and every later request returns 0.
C35_DelaysUpToMaxRetries ==
  /\ backoff_should_retry(exp_backoff)
        <=> Len(exp_backoff.delays) < exp_backoff.max_retries
  /\ ~exp_backoff.jitter =>
        \A k \in 1..Len(exp_backoff.delays) :
          exp_backoff.delays[k]
            = IF k <= exp_backoff.max_retries
              THEN Min(exp_backoff.base_delay * 2 ^ (k - 1), exp_backoff.max_delay)
              ELSE 0

\* three delays were requested without jitter from a backoff with
\* max_retries 3, the last limited by max_delay, and a fourth returned 0
C35_Witness ==
  /\ ~exp_backoff.jitter
  /\ exp_backoff.max_retries = 3
  /\ exp_backoff.delays = <<1, 2, 2, 0>>
  /\ ~backoff_should_retry(exp_backoff)

(***************************************************************************)
(* The health check: C36                                                   *)
(***************************************************************************)
\* C36: the overall status is unhealthy exactly when some check reports
\* unhealthy, otherwise warning exactly when some check reports warning or
\* error, otherwise healthy; the exit code is 1 exactly for an unhealthy
\* overall status or an internal error, and 0 otherwise.
C36_OverallStatusAndExitCode ==
  /\ (health.pc \in {"checked", "exited"} /\ ~health.internal_error) =>
        health.overall_status =
          IF \E c \in CheckNames : health.checks[c] = "unhealthy" THEN "unhealthy"
          ELSE IF \E c \in CheckNames : health.checks[c] \in {"warning", "error"}
               THEN "warning"
          ELSE "healthy"
  /\ health.pc = "exited" =>
        /\ health.exit_code \in {0, 1}
        /\ health.exit_code = 1
             <=> (health.overall_status = "unhealthy" \/ health.internal_error)

\* C36 for the runs in which no check is recorded with status error
C36_WithoutErrorStatus ==
  (\A c \in CheckNames : health.checks[c] # "error") => C36_OverallStatusAndExitCode

(***************************************************************************)
(* Batching under concurrent callers: C37                                  *)
(***************************************************************************)
\* the records handed to _send_current_batch so far: dropped by the open
\* breaker, or taken as batch_to_send
HandedToSend == hist.submitted \cup hist.dropped \cup Ids(send.batch_to_send)

\* how often record i is in the current batch
TimesInCurrentBatch(i) ==
  Cardinality({k \in 1..Len(current_batch) : current_batch[k].id = i})

\* record i waits for the batch lock in _add_to_batch
WaitsToBeAdded(i) ==
  \E c \in Callers : task[c].pc = "add_wait" /\ task[c].rec.id = i

\* C37: under any interleaving of add-record calls, the batch timer and
\* flush calls, each accepted record is placed in exactly one batch that is
\* handed to the send path: at any moment a record is waiting for the lock,
\* once in the current batch, or in a batch that was handed over, and never
\* in two of these; the records handed over in a step are one batch, none of
\* them handed over before.
C37_EachRecordInOneBatch ==
  /\ [](\A i \in 1..(next_id - 1) :
          \/ WaitsToBeAdded(i) /\ TimesInCurrentBatch(i) = 0 /\ i \notin HandedToSend
          \/ ~WaitsToBeAdded(i) /\ TimesInCurrentBatch(i) = 1 /\ i \notin HandedToSend
          \/ ~WaitsToBeAdded(i) /\ TimesInCurrentBatch(i) = 0 /\ i \in HandedToSend)
  /\ [][LET taken == IF send'.batch_to_send # <<>> /\ send.batch_to_send = <<>>
                     THEN send'.batch_to_send
                     ELSE IF send.batch_to_send = <<>> THEN hist'.last_send.batch
                     ELSE <<>>
        IN  /\ HandedToSend' \ HandedToSend = Ids(taken)
            /\ Cardinality(Ids(taken)) = Len(taken)
            /\ HandedToSend \subseteq HandedToSend']_vars

\* the timer holds the lock and waits for put_records with its batch, while
\* one caller waits for the lock with a record and the other with a flush;
\* an earlier batch was handed over before
C37_Witness ==
  /\ batch_timer_task = "sending"
  /\ send.batch_to_send # <<>>
  /\ \E c \in Callers : task[c].pc = "add_wait"
  /\ \E c \in Callers : task[c].pc = "flush_wait"
  /\ hist.submitted \ Ids(send.batch_to_send) # {}

(***************************************************************************)
(* The metrics buffer under appends and flushes: C38                       *)
(***************************************************************************)
\* the points of the calls a flush has made
PointsOfCalls(f) == UNION {Range(f.calls[k]) : k \in 1..Len(f.calls)}

\* C38: under any interleaving of metric appends and flushes each appended
\* point is taken by exactly one flush: a point is once in the buffer or in
\* the points one flush took, never both and never in the points of two
\* flushes, and a flush submits only points it took; the points that leave
\* the buffer in a step are the points one flush takes in that step, none of
\* them submitted before, and a point appended while a flush is in progress
\* stays in the buffer.
C38_EachPointTakenByOneFlush ==
  /\ [](/\ Cardinality(Range(publisher.metrics_buffer)) = Len(publisher.metrics_buffer)
        /\ Range(publisher.metrics_buffer) \subseteq 1..(publisher.next_point - 1)
        /\ \A who \in Flushers :
             /\ Range(publisher.flush[who].taken) \cap Range(publisher.metrics_buffer) = {}
             /\ Cardinality(Range(publisher.flush[who].taken))
                  = Len(publisher.flush[who].taken)
             /\ PointsOfCalls(publisher.flush[who]) \subseteq Range(publisher.flush[who].taken)
        /\ Range(publisher.flush["loop"].taken) \cap Range(publisher.flush["caller"].taken) = {}
        /\ publisher.submitted \cap Range(publisher.metrics_buffer) = {})
  /\ [][LET appended == publisher.next_point..(publisher'.next_point - 1)
            left == (Range(publisher.metrics_buffer) \cup appended)
                      \ Range(publisher'.metrics_buffer)
            takers == {who \in Flushers :
                         /\ publisher'.flush[who].taken # <<>>
                         /\ publisher'.flush[who].taken # publisher.flush[who].taken}
        IN  /\ Range(publisher'.metrics_buffer)
                 \subseteq Range(publisher.metrics_buffer) \cup appended
            /\ left = UNION {Range(publisher'.flush[who].taken) : who \in takers}
            /\ Cardinality(takers) <= 1
            /\ left # {} <=> takers # {}
            /\ left \cap publisher.submitted = {}
            /\ \A who \in takers :
                 publisher'.flush[who].taken
                   = publisher.metrics_buffer \o [j \in 1..Cardinality(appended) |->
                                                   publisher.next_point + j - 1]]_vars

\* the periodic task and the caller are both inside a flush, each with the
\* points it took, and a point appended meanwhile is in the buffer
C38_Witness ==
  /\ \A who \in Flushers :
       publisher.flush[who].pc \in {"put", "backoff"} /\ publisher.flush[who].taken # <<>>
  /\ publisher.metrics_buffer # <<>>
  /\ \A who \in Flushers : \A j \in DOMAIN publisher.flush[who].taken :
       publisher.flush[who].taken[j] < publisher.metrics_buffer[1]

(***************************************************************************)
(* The producer's counters: C39                                            *)
(***************************************************************************)
\* C39: once its batch has been processed, every record accepted by the
\* producer is counted exactly once, in messages_sent or in messages_failed:
\* summed over all metric windows, messages_sent + messages_failed is the
\* number of records whose batch was sent or dropped.
C39_EveryRecordCountedOnce ==
  send.pc = "idle" =>
    (hist.published.messages_sent + messages_sent)
      + (hist.published.messages_failed + messages_failed)
    = Cardinality(hist.submitted \cup hist.dropped)

\* C39 for the sends in which put_records reported no record as failed
C39_WithoutPartialFailure ==
  [][(hist'.last_send.result # "none" /\ "partial" \notin hist'.last_send.seen
        /\ hist'.last_send.skipped = {})
     => (hist'.published.messages_sent + messages_sent')
          + (hist'.published.messages_failed + messages_failed')
        = (hist.published.messages_sent + messages_sent)
          + (hist.published.messages_failed + messages_failed)
          + Len(hist'.last_send.batch)]_vars

(***************************************************************************)
(* The handler's response: C40                                             *)
(***************************************************************************)
\* C40: in every handler response batchItemFailures holds no sequence
\* number twice, and each input record that carries a sequence number is
\* covered by a sentiment result or listed in batchItemFailures.
C40_ResponseCoversEveryRecord ==
  h_pc = "returned" =>
    /\ Cardinality(Range(response)) = Len(response)
    /\ \A k \in 1..Len(event) :
         sequenceNumber(k) # 0 =>
           \/ InSeq(sequenceNumber(k), response)
           \/ \E j \in 1..Len(h.all_sentiment_results) : h.all_sentiment_results[j].rec = k

\* C40 for the events in which no two records carry the same post
C40_DistinctPosts ==
  (\A j, k \in 1..Len(event) :
     (j # k /\ event[j] \in PostIds) => event[j] # event[k])
  => C40_ResponseCoversEveryRecord

====
